---------------------------- MODULE Spec2Model ----------------------------
(***************************************************************************)
(* State-machine model of the calculation core of the learning-management  *)
(* backend: badge tiers and awards, completion calculation, lesson         *)
(* progress roll-up, enrollment and attendance bookkeeping.                *)
(*                                                                         *)
(* Tables are bags (multisets) of rows: the rows carry no primary key, so  *)
(* two inserts of equal content are two copies.  Times are integer ticks,  *)
(* TicksPerYear ticks to a calendar year.  Hours are whole numbers.        *)
(* A request handler is a process: pc is its position, req its arguments,  *)
(* outcome the response of its last request.  A step is one group of SQL   *)
(* statements that run without another commit in between (READ COMMITTED). *)
(***************************************************************************)
EXTENDS Integers, FiniteSets, Sequences, Bags, TLC

VARIABLES
    now,            \* the clock: datetime.utcnow(), in ticks
    hoursIn,        \* argument of determine_badge_type
    tierOut,        \* its result
    trainings,      \* Training rows: the set of ids
    sessions,       \* TrainingSession rows: set of [id, training, date]
    modules,        \* Module rows: id -> training id, or NoRow
    lessons,        \* Lesson rows: id -> module id, or NoRow
    enrollments,    \* Enrollment rows: id -> row, or NoRec
    progress,       \* LessonProgress rows: a bag
    attendance,     \* Attendance rows: a bag
    completions,    \* TrainingCompletion rows: a bag
    badges,         \* Badge rows: a bag
    notifications,  \* Notification rows: a bag of [user, type]
    pc,             \* request process -> position in its handler
    req,            \* request process -> arguments of its current/last request
    loc,            \* request process -> what its handler has read so far
    outcome,        \* request process -> response of its current/last request
    jobPc,          \* position of calculate_yearly_badges
    job,            \* its locals: previous_year, user_hours, user_trainings, todo, pending
    jobRuns,        \* number of finished runs of calculate_yearly_badges
    reminder,       \* send_session_reminders: its position, locals and log
    scheduler,      \* the module global 'scheduler': None or the instance it names
    instances,      \* the AsyncIOScheduler objects created so far, in order
    submitted       \* history: (user, lesson) -> quiz scores submitted so far

tierVars    == <<hoursIn, tierOut>>
catalogVars == <<trainings, sessions, modules, lessons>>
tableVars   == <<enrollments, progress, attendance, completions, badges, notifications>>
procVars    == <<pc, req, loc, outcome>>
schedVars   == <<scheduler, instances>>
jobVars     == <<jobPc, job, jobRuns, reminder, schedVars>>
vars == <<now, tierVars, catalogVars, tableVars, procVars, jobVars, submitted>>

---------------------------------------------------------------------------
(* Bounds and value sets *)

MaxHours     == 100  \* hours fed to determine_badge_type: 0..MaxHours
TicksPerYear == 2    \* clock ticks per calendar year
MaxJobRuns   == 2    \* runs of the yearly job in one behaviour
NumLessons   == 3    \* lesson ids available: 1..NumLessons
MaxInstances == 3    \* AsyncIOScheduler objects created in one behaviour
MaxDay       == 2    \* the clock of the reminder specifications stops at this day

NoRow  == "NoRow"               \* no row, where a row is an id
NoRec  == [absent |-> TRUE]     \* no row, where a row is a record
None   == <<>>                  \* Python None in an Optional value
Some(x) == <<x>>                \* a value in an Optional value
NoTier == "none"     \* Python None returned by determine_badge_type

Users         == {"u1", "u2"}
Procs         == {"p1", "p2"}
TrainingIds   == {"t1", "t2"}
EnrollmentIds == {"e1", "e2", "e3"}
ModuleIds     == {"m1", "m2"}
LessonIds     == 1..NumLessons

---------------------------------------------------------------------------
(* Bag helpers *)

\* The distinct rows of a table.
Rows(B) == BagToSet(B)

\* Number of rows of bag B among the distinct rows S (copies counted).
CountRows(B, S) ==
    LET RECURSIVE Sum(_)
        Sum(T) == IF T = {} THEN 0
                  ELSE LET r == CHOOSE x \in T : TRUE
                       IN CopiesIn(r, B) + Sum(T \ {r})
    IN Sum(S)

\* Bag B with one copy of row r added.
Insert(B, r) == B (+) SetToBag({r})

\* Bag B with one copy of row r removed.
Delete(B, r) == B (-) SetToBag({r})

---------------------------------------------------------------------------
(* Badge Tier Resolver: src/api/routes/badges.py determine_badge_type *)

\* Mutant: the thresholds taken as exclusive bounds.
determine_badge_type_exclusive(hours) ==
    IF hours > 80 THEN "PLATINUM"
    ELSE IF hours > 60 THEN "GOLD"
    ELSE IF hours > 40 THEN "SILVER"
    ELSE IF hours > 20 THEN "BRONZE"
    ELSE NoTier

determine_badge_type(hours) ==
    IF hours >= 80 THEN "PLATINUM"
    ELSE IF hours >= 60 THEN "GOLD"
    ELSE IF hours >= 40 THEN "SILVER"
    ELSE IF hours >= 20 THEN "BRONZE"
    ELSE NoTier


\* Rank of a tier in the order none < BRONZE < SILVER < GOLD < PLATINUM.
TierRank(t) ==
    CASE t = "BRONZE"   -> 1
      [] t = "SILVER"   -> 2
      [] t = "GOLD"     -> 3
      [] t = "PLATINUM" -> 4
      [] OTHER          -> 0

---------------------------------------------------------------------------
(* Default (unused) values of the groups of variables *)

NoReq == [op |-> "none"]

EmptyFn == [x \in {} |-> 0]

IdleJob == [year |-> 0, user_hours |-> EmptyFn, user_trainings |-> EmptyFn,
            todo |-> {}, pendingBadges |-> EmptyBag, pendingNotifs |-> EmptyBag,
            awarded |-> {}, status |-> "none"]

\* send_session_reminders not running: no locals, an empty log.
IdleReminder == [pc |-> "idle", todo |-> {}, session |-> NoRec, enrollments |-> {},
                 pending |-> EmptyBag, aborted |-> FALSE, targets |-> {}, raised |-> {},
                 sent |-> EmptyBag, status |-> "none", runs |-> 0]

TierUnused    == hoursIn = 0 /\ tierOut = "unset"
CatalogEmpty  == /\ trainings = {}
                 /\ sessions = {}
                 /\ modules = [m \in {} |-> NoRow]
                 /\ lessons = [l \in {} |-> NoRow]
ProcsIdle     == /\ pc = [p \in Procs |-> "idle"]
                 /\ req = [p \in Procs |-> NoReq]
                 /\ loc = [p \in Procs |-> NoRec]
                 /\ outcome = [p \in Procs |-> "none"]
JobIdle       == /\ jobPc = "idle" /\ job = IdleJob /\ jobRuns = 0
                 /\ reminder = IdleReminder
                 /\ scheduler = <<>> /\ instances = <<>>
NoSubmissions == submitted = [x \in {} |-> {}]

---------------------------------------------------------------------------
(* Specification SpecTier: determine_badge_type applied to one input *)

TierInit ==
    /\ now = 0
    /\ hoursIn \in 0..MaxHours
    /\ tierOut = "unset"
    /\ CatalogEmpty
    /\ enrollments = [e \in EnrollmentIds |-> NoRec]
    /\ progress = EmptyBag /\ attendance = EmptyBag /\ completions = EmptyBag
    /\ badges = EmptyBag /\ notifications = EmptyBag
    /\ ProcsIdle /\ JobIdle /\ NoSubmissions

ResolveTier ==
    /\ tierOut = "unset"
    /\ tierOut' = determine_badge_type(hoursIn)
    /\ UNCHANGED <<now, hoursIn, catalogVars, tableVars, procVars, jobVars, submitted>>

TierNext == ResolveTier

SpecTier == TierInit /\ [][TierNext]_vars

\* C5: for every h >= 0 the tier is PLATINUM from 80, GOLD from 60, SILVER from
\* 40, BRONZE from 20, none below 20 (each boundary inclusive), and the tier
\* never decreases when the hours grow.
C5_TierThresholds ==
    tierOut # "unset" =>
        /\ tierOut \in {NoTier, "BRONZE", "SILVER", "GOLD", "PLATINUM"}
        /\ TierRank(tierOut) = Cardinality({k \in {20, 40, 60, 80} : k <= hoursIn})
        /\ \A h \in 0..hoursIn :
               TierRank(determine_badge_type(h)) <= TierRank(tierOut)

\* C5 witness: the resolver has run on the boundary value 80.
C5_Witness == hoursIn = 80 /\ tierOut = "PLATINUM"

---------------------------------------------------------------------------
(* Clock and calendar *)

\* func.extract("year", t), datetime.year
YearOf(t) == t \div TicksPerYear

\* datetime(y, 1, 1)
YearStart(y) == y * TicksPerYear

---------------------------------------------------------------------------
(* Request processes *)

AllQuiet == jobPc = "idle" /\ reminder.pc = "idle" /\ \A p \in Procs : pc[p] = "idle"

\* A request ends: its response is recorded and the process is free again.
Respond(p, r) ==
    /\ pc' = [pc EXCEPT ![p] = "idle"]
    /\ outcome' = [outcome EXCEPT ![p] = r]
    /\ loc' = [loc EXCEPT ![p] = NoRec]
    /\ UNCHANGED req

Goto(p, label) ==
    /\ pc' = [pc EXCEPT ![p] = label]
    /\ UNCHANGED <<req, loc, outcome>>

\* Go on to label, keeping what was read in the handler's locals.
GotoWith(p, label, l) ==
    /\ pc' = [pc EXCEPT ![p] = label]
    /\ loc' = [loc EXCEPT ![p] = l]
    /\ UNCHANGED <<req, outcome>>

Begin(p, label, r) ==
    /\ pc[p] = "idle"
    /\ pc' = [pc EXCEPT ![p] = label]
    /\ req' = [req EXCEPT ![p] = r]
    /\ outcome' = [outcome EXCEPT ![p] = "pending"]
    /\ UNCHANGED loc

---------------------------------------------------------------------------
(* Badges: on-demand award, src/api/routes/badges.py calculate_and_award_badge *)

\* Sum of learning_hours over the rows of bag B among the distinct rows S.
SumHours(B, S) ==
    LET RECURSIVE Sum(_)
        Sum(T) == IF T = {} THEN 0
                  ELSE LET r == CHOOSE x \in T : TRUE
                       IN CopiesIn(r, B) * r.learning_hours + Sum(T \ {r})
    IN Sum(S)

\* select(Badge).where(user_id == u, year_earned == y): number of rows
BadgeCount(B, u, y) == CountRows(B, {b \in Rows(B) : b.user = u /\ b.year = y})

\* The year filter of the endpoint: extract(year from completed_at) == y
InYearOf(c, u, y) == c.user = u /\ YearOf(c.completed_at) = y

\* Lines 60-96: the Badge the endpoint builds from the completions, or the
\* error it raises.
AwardBadgeFor(u, y) ==
    LET total_trainings == CountRows(completions, {c \in Rows(completions) : InYearOf(c, u, y)})
        total_hours     == SumHours(completions, {c \in Rows(completions) : InYearOf(c, u, y)})
        badge_type      == determine_badge_type(total_hours)
    IN  IF total_trainings = 0 THEN [error |-> "NoCompletions"]
        ELSE IF badge_type = NoTier THEN [error |-> "Insufficient"]
        ELSE [user |-> u, year |-> y, type |-> badge_type,
              hours |-> total_hours, trainings |-> total_trainings]

BadgeEarned(u) == [user |-> u, type |-> "BADGE_EARNED"]

AwardStart(p, u, y) ==
    /\ Begin(p, "award_check", [op |-> "award", user |-> u, year |-> y])
    /\ UNCHANGED <<now, tierVars, catalogVars, tableVars, jobVars, submitted>>

\* Mutant: the 'badge exists?' check of lines 47-58 left out.
AwardCheckNoExisting(p) ==
    /\ pc[p] = "award_check"
    /\ Goto(p, "award_commit")
    /\ UNCHANGED <<now, tierVars, catalogVars, tableVars, jobVars, submitted>>

\* Lines 47-58: the 'badge exists?' read (scalar_one_or_none raises on 2 rows).
AwardCheck(p) ==
    /\ pc[p] = "award_check"
    /\ LET n == BadgeCount(badges, req[p].user, req[p].year)
       IN  IF n >= 2 THEN Respond(p, "MultipleResultsFound")
           ELSE IF n = 1 THEN Respond(p, "BadgeExists")
           ELSE Goto(p, "award_commit")
    /\ UNCHANGED <<now, tierVars, catalogVars, tableVars, jobVars, submitted>>

\* Lines 60-107: read the completions, build the badge, notify, commit.
AwardCommit(p) ==
    /\ pc[p] = "award_commit"
    /\ LET b == AwardBadgeFor(req[p].user, req[p].year)
       IN  IF "error" \in DOMAIN b
           THEN /\ Respond(p, b.error)
                /\ UNCHANGED <<badges, notifications>>
           ELSE /\ badges' = Insert(badges, b)
                /\ notifications' = Insert(notifications, BadgeEarned(b.user))
                /\ Respond(p, "Awarded")
    /\ UNCHANGED <<now, tierVars, catalogVars, enrollments, progress, attendance,
                   completions, jobVars, submitted>>

---------------------------------------------------------------------------
(* Badges: yearly job, src/core/scheduler.py calculate_yearly_badges *)

\* Mutant: the upper bound of the range taken inclusive.
InRangeInclusive(c, previous_year, current_year) ==
    /\ c.completed_at >= YearStart(previous_year)
    /\ c.completed_at <= YearStart(current_year)

\* Lines 120-123: completed_at >= datetime(prev,1,1) and < datetime(cur,1,1)
InRange(c, previous_year, current_year) ==
    /\ c.completed_at >= YearStart(previous_year)
    /\ c.completed_at < YearStart(current_year)

\* Lines 158-166: the tier rule as the job writes it out.
JobTier(total_hours) ==
    IF total_hours >= 80 THEN "PLATINUM"
    ELSE IF total_hours >= 60 THEN "GOLD"
    ELSE IF total_hours >= 40 THEN "SILVER"
    ELSE IF total_hours >= 20 THEN "BRONZE"
    ELSE NoTier

\* Lines 128-136: user_hours and user_trainings of the selected completions.
JobUsers(previous_year, current_year) ==
    {c.user : c \in {x \in BagToSet(completions) : InRange(x, previous_year, current_year)}}

JobUserHours(previous_year, current_year) ==
    [u \in JobUsers(previous_year, current_year) |->
        SumHours(completions, {c \in Rows(completions) : c.user = u /\ InRange(c, previous_year, current_year)})]

\* Mutant: user_trainings counts the user's completions of every year.
JobUserTrainingsAllYears(previous_year, current_year) ==
    [u \in JobUsers(previous_year, current_year) |->
        CountRows(completions, {c \in Rows(completions) : c.user = u})]

JobUserTrainings(previous_year, current_year) ==
    [u \in JobUsers(previous_year, current_year) |->
        CountRows(completions, {c \in Rows(completions) : c.user = u /\ InRange(c, previous_year, current_year)})]

\* Lines 157-178: the Badge the job builds for a user, or none.
JobBadgeFor(u, previous_year, total_hours, total_trainings) ==
    LET badge_type == JobTier(total_hours)
    IN  IF badge_type = NoTier THEN NoRec
        ELSE [user |-> u, year |-> previous_year, type |-> badge_type,
              hours |-> total_hours, trainings |-> total_trainings]

\* Lines 109-136: open the session, read the clock, select and group.
JobStart ==
    /\ jobPc = "idle"
    /\ jobRuns < MaxJobRuns
    /\ LET current_year  == YearOf(now)
           previous_year == current_year - 1
       IN  job' = [IdleJob EXCEPT
                     !.year = previous_year,
                     !.user_hours = JobUserHours(previous_year, current_year),
                     !.user_trainings = JobUserTrainings(previous_year, current_year),
                     !.todo = JobUsers(previous_year, current_year),
                     !.status = "running"]
    /\ jobPc' = "loop"
    /\ UNCHANGED <<now, tierVars, catalogVars, tableVars, procVars, jobRuns, reminder, schedVars,
                   submitted>>

\* What the job's session sees of Badge: committed rows and its own flushed ones.
JobVisibleBadges == badges (+) job.pendingBadges

\* Mutant: the job body without the try/except of lines 102 and 195-196.
JobFailureRaised == "raised"

\* Lines 91-92 and 195-196: an exception anywhere in a job's body is caught
\* and logged; the job function returns normally.
JobFailure == "error"

\* The run ends: the locals are dropped, the log (status, awarded) stays.
JobEnd(st, aw) ==
    /\ jobPc' = "idle"
    /\ job' = [IdleJob EXCEPT !.year = job.year, !.status = st, !.awarded = aw]
    /\ jobRuns' = jobRuns + 1

\* Mutant: the 'already has a badge' skip of lines 153-155 left out.
JobUserNoSkip(u) ==
    /\ jobPc = "loop"
    /\ u \in job.todo
    /\ LET b == JobBadgeFor(u, job.year, job.user_hours[u], job.user_trainings[u])
       IN  IF b = NoRec
           THEN job' = [job EXCEPT !.todo = @ \ {u}]
           ELSE job' = [job EXCEPT
                          !.todo = @ \ {u},
                          !.pendingBadges = Insert(@, b),
                          !.pendingNotifs = Insert(@, BadgeEarned(u)),
                          !.awarded = @ \cup {u}]
    /\ UNCHANGED <<jobPc, jobRuns>>
    /\ UNCHANGED <<now, tierVars, catalogVars, tableVars, procVars, reminder, schedVars, submitted>>

\* Lines 146-190: one iteration of the loop over user_hours.  An exception
\* (scalar_one_or_none on 2 rows) leaves the loop and the session without commit.
JobUser(u) ==
    /\ jobPc = "loop"
    /\ u \in job.todo
    /\ LET n == BadgeCount(JobVisibleBadges, u, job.year)
           b == JobBadgeFor(u, job.year, job.user_hours[u], job.user_trainings[u])
       IN  IF n >= 2 THEN JobEnd(JobFailure, {})
           ELSE /\ IF n = 1 \/ b = NoRec
                   THEN job' = [job EXCEPT !.todo = @ \ {u}]
                   ELSE job' = [job EXCEPT
                                  !.todo = @ \ {u},
                                  !.pendingBadges = Insert(@, b),
                                  !.pendingNotifs = Insert(@, BadgeEarned(u)),
                                  !.awarded = @ \cup {u}]
                /\ UNCHANGED <<jobPc, jobRuns>>
    /\ UNCHANGED <<now, tierVars, catalogVars, tableVars, procVars, reminder, schedVars, submitted>>

\* Lines 103-107: get_settings or create_async_engine raises.
JobOpenFails ==
    /\ jobPc = "idle"
    /\ jobRuns < MaxJobRuns
    /\ JobEnd(JobFailure, {})
    /\ UNCHANGED <<now, tierVars, catalogVars, tableVars, procVars, reminder, schedVars, submitted>>

\* Lines 109-193: a statement of the body raises (a query, a flush or the
\* commit refused by the storage); the session block is left without commit.
JobRaise ==
    /\ jobPc = "loop"
    /\ JobEnd(JobFailure, {})
    /\ UNCHANGED <<now, tierVars, catalogVars, tableVars, procVars, reminder, schedVars, submitted>>

\* Line 192: the one commit of the run.
JobCommit ==
    /\ jobPc = "loop"
    /\ job.todo = {}
    /\ badges' = badges (+) job.pendingBadges
    /\ notifications' = notifications (+) job.pendingNotifs
    /\ JobEnd("committed", job.awarded)
    /\ UNCHANGED <<now, tierVars, catalogVars, enrollments, progress, attendance,
                   completions, procVars, reminder, schedVars, submitted>>

---------------------------------------------------------------------------
(* Specifications SpecBadge (requests and the job interleave) and          *)
(* SpecBadgeSeq (one handler at a time) over a fixed set of completions    *)

SeedOwner(e) == IF e = "e3" THEN "u2" ELSE "u1"
SeedHours    == {10, 20, 40}
\* From the last tick of year 0 to the first tick of year 2.
SeedTicks    == (TicksPerYear - 1)..(2 * TicksPerYear)
AwardYears   == {1, 2}

SeedCompletion(e, t, h) ==
    [enrollment |-> e, user |-> SeedOwner(e), training |-> "t1",
     completed_at |-> t, learning_hours |-> h, attendance_percentage |-> [num |-> 100, den |-> 1],
     assessment_score |-> None, passed |-> TRUE,
     certificate_issued |-> FALSE, certificate_url |-> None]

SeedCompletions(E) ==
    {SetToBag({f[e] : e \in E} \ {NoRec}) :
        f \in [E -> {NoRec} \cup {SeedCompletion(e, t, h) :
                                    e \in E, t \in SeedTicks, h \in SeedHours}]}

\* A seeded bag holds at most one completion per enrollment (unique enrollment_id).
SeedOk(B) ==
    \A c \in BagToSet(B) :
        CountRows(B, {x \in Rows(B) : x.enrollment = c.enrollment}) = 1

BadgeInit(E) ==
    /\ now = 2 * TicksPerYear
    /\ TierUnused
    /\ CatalogEmpty
    /\ enrollments = [e \in EnrollmentIds |-> NoRec]
    /\ progress = EmptyBag /\ attendance = EmptyBag
    /\ completions \in {B \in SeedCompletions(E) : SeedOk(B)}
    /\ badges = EmptyBag /\ notifications = EmptyBag
    /\ ProcsIdle /\ JobIdle /\ NoSubmissions

BadgeConcInit == BadgeInit({"e1", "e2"})

ConcAwardStart == \E p \in Procs : AwardStart(p, "u1", 1)

SeqAwardStart == \E u \in Users, y \in AwardYears : AllQuiet /\ AwardStart("p1", u, y)

SeqJobStart == AllQuiet /\ JobStart

BadgeConcNext ==
    \/ ConcAwardStart
    \/ \E p \in Procs : AwardCheck(p)
    \/ \E p \in Procs : AwardCommit(p)
    \/ JobStart
    \/ \E u \in Users : JobUser(u)
    \/ JobCommit

SpecBadge == BadgeConcInit /\ [][BadgeConcNext]_vars

BadgeSeqInit == BadgeInit(EnrollmentIds)

BadgeSeqNext ==
    \/ SeqAwardStart
    \/ AwardCheck("p1")
    \/ AwardCommit("p1")
    \/ SeqJobStart
    \/ \E u \in Users : JobUser(u)
    \/ JobCommit

SpecBadgeSeq == BadgeSeqInit /\ [][BadgeSeqNext]_vars

\* C1: at most one Badge row per (user_id, year_earned) in every reachable
\* state, the interleavings of on-demand awards and job runs included.
C1_OneBadgePerUserYear ==
    \A b \in BagToSet(badges) : BadgeCount(badges, b.user, b.year) <= 1

(* Specification SpecBadgeJob: as SpecBadge, with completions of both users *)

BadgeJobInit == BadgeInit({"e1", "e3"})

SpecBadgeJob == BadgeJobInit /\ [][BadgeConcNext]_vars

\* Hours of user u in calendar year y, over the stored completions.
HoursInYear(u, y) ==
    SumHours(completions, {c \in Rows(completions) : c.user = u /\ YearOf(c.completed_at) = y})

\* BADGE_EARNED notifications addressed to u.
BadgeNotifCount(u) == CountRows(notifications, {n \in Rows(notifications) : n = BadgeEarned(u)})

\* The year the job awards for at the current clock.
JobYear == YearOf(now) - 1

\* C4: once the yearly job has run, every user with >= 20 hours in the year
\* holds exactly one Badge for it; a second run over the same completions
\* awards nobody, inserts no Badge and emits no BADGE_EARNED notification.
C4_YearlyJobIdempotent ==
    /\ (jobPc = "idle" /\ jobRuns >= 1) =>
           \A u \in Users :
               HoursInYear(u, JobYear) >= 20 => BadgeCount(badges, u, JobYear) = 1
    /\ (jobPc = "idle" /\ jobRuns >= 2) =>
           /\ job.awarded = {}
           /\ \A u \in Users :
                  BadgeNotifCount(u) = CountRows(badges, {b \in Rows(badges) : b.user = u})

\* C4 witness: two runs are over, no on-demand award was ever requested, and
\* a user holds the badge the first run gave.
C4_Witness ==
    /\ jobPc = "idle" /\ jobRuns = 2 /\ job.status = "committed"
    /\ outcome["p1"] = "none"
    /\ BadgeCount(badges, "u1", JobYear) = 1
    /\ HoursInYear("u1", JobYear) = 30

\* C13: an error while the job processes one user does not abort the run:
\* when a run has ended, every user with >= 20 hours in the job's year holds
\* a Badge for that year.
C13_PerUserErrorIsolated ==
    (jobPc = "idle" /\ jobRuns >= 1) =>
        \A u \in Users :
            HoursInYear(u, job.year) >= 20 => BadgeCount(badges, u, job.year) >= 1

\* The TrainingCompletion rows of user u with completed_at in calendar year y.
CompletionsInYear(u, y) ==
    {c \in Rows(completions) : c.user = u /\ YearOf(c.completed_at) = y}

\* C24: the commit of an error-free run of the yearly job for year Y adds,
\* for every user u without a Badge for Y whose completions in Y sum to
\* H >= 20 hours, exactly one Badge(u, Y, tier(H), H, N), N the number of
\* those completions, and exactly one BADGE_EARNED notification for u; for
\* every other user it adds nothing; no row is removed.  Completions outside
\* Y count for nobody.
C24_YearlyJobAwards ==
    [][(jobPc = "loop" /\ jobPc' = "idle" /\ job'.status = "committed") =>
          \A u \in Users :
              LET Y == job.year
                  H == SumHours(completions, CompletionsInYear(u, Y))
                  N == CountRows(completions, CompletionsInYear(u, Y))
                  due == BadgeCount(badges, u, Y) = 0 /\ H >= 20
                  expected == [user |-> u, year |-> Y, type |-> determine_badge_type(H),
                               hours |-> H, trainings |-> N]
              IN  /\ \A b \in Rows(badges) \cup Rows(badges') \cup {expected} :
                         b.user = u =>
                             CopiesIn(b, badges') =
                                 CopiesIn(b, badges) + (IF due /\ b = expected THEN 1 ELSE 0)
                  /\ CopiesIn(BadgeEarned(u), notifications') =
                         CopiesIn(BadgeEarned(u), notifications) + (IF due THEN 1 ELSE 0)]_vars

\* A committed run awarded u1, who also has a completion outside the job's
\* year, and passed over u2, who held a badge from an on-demand award.
C24_Witness ==
    /\ jobPc = "idle" /\ job.status = "committed" /\ job.awarded = {"u1"}
    /\ BadgeCount(badges, "u1", JobYear) = 1
    /\ \E c \in Rows(completions) : c.user = "u1" /\ YearOf(c.completed_at) # JobYear
    /\ \E b \in Rows(badges) :
           /\ b.user = "u1" /\ b.year = JobYear
           /\ b.trainings = 1 /\ b.hours = 40 /\ b.type = "SILVER"
    /\ req["p1"] = [op |-> "award", user |-> "u2", year |-> JobYear]
    /\ outcome["p1"] = "Awarded"
    /\ BadgeCount(badges, "u2", JobYear) = 1
    /\ BadgeNotifCount("u2") = 1

AwardOutcomeFor(u) ==
    LET b == AwardBadgeFor(u, JobYear)
    IN  IF "error" \in DOMAIN b THEN NoRec ELSE b

\* What the job would create for u, NoRec if nothing.
JobOutcomeFor(u) ==
    LET cur == YearOf(now)
    IN  IF u \in JobUsers(cur - 1, cur)
        THEN JobBadgeFor(u, cur - 1, JobUserHours(cur - 1, cur)[u],
                         JobUserTrainings(cur - 1, cur)[u])
        ELSE NoRec

\* C6: over the same completions and with no badge yet, the endpoint and the
\* job create the same Badge (type, hours_completed, trainings_completed) or
\* both create none: the badge a finished job run gave a user is the one the
\* endpoint would build, and the endpoint's answer is the job's.
C6_EndpointAndJobAgree ==
    \A u \in Users :
        /\ AwardOutcomeFor(u) = JobOutcomeFor(u)
        /\ (jobPc = "idle" /\ u \in job.awarded) =>
               CopiesIn(AwardOutcomeFor(u), badges) = 1
        /\ \A p \in Procs :
               (pc[p] = "idle" /\ req[p] = [op |-> "award", user |-> u, year |-> JobYear]) =>
                   /\ outcome[p] = "Awarded" =>
                          CopiesIn(JobOutcomeFor(u), badges) = 1
                   /\ outcome[p] \in {"NoCompletions", "Insufficient"} =>
                          JobOutcomeFor(u) = NoRec

\* C6 witness: the endpoint awarded one user for the job's year, a later job
\* run awarded the other, and a completion lies on the year's last tick.
C6_Witness ==
    /\ jobPc = "idle" /\ job.status = "committed" /\ job.awarded = {"u2"}
    /\ outcome["p1"] = "Awarded" /\ req["p1"].year = JobYear /\ req["p1"].user = "u1"
    /\ \E c \in BagToSet(completions) :
           c.completed_at = YearStart(JobYear + 1) - 1

---------------------------------------------------------------------------
(* Enrollment: src/api/routes/enrollments.py enroll_in_training and        *)
(* src/api/routes/manager.py assign_training_to_team_member                *)

\* Enrollment(user_id, training_id, status=ENROLLED) with the column defaults
\* of src/models/enrollment.py; completion_percentage in hundredths of a percent.
NewEnrollment(u, t, assigned) ==
    [user |-> u, training |-> t, status |-> "ENROLLED", is_assigned |-> assigned,
     completed_at |-> None, completion_percentage |-> 0]

\* select(Enrollment).where(user_id == u, training_id == t): the ids found
EnrollmentsOf(u, t) ==
    {e \in EnrollmentIds :
        enrollments[e] # NoRec /\ enrollments[e].user = u /\ enrollments[e].training = t}

\* The primary key uuid4() gives a new row: an id no row has.
FreshEnrollmentId == CHOOSE e \in EnrollmentIds : enrollments[e] = NoRec

Notification(u, type) == [user |-> u, type |-> type]

EnrollStart(p, u, t) ==
    /\ Begin(p, "enroll_check", [op |-> "enroll", user |-> u, training |-> t])
    /\ UNCHANGED <<now, tierVars, catalogVars, tableVars, jobVars, submitted>>

AssignStart(p, u, t) ==
    /\ Begin(p, "enroll_check", [op |-> "assign", user |-> u, training |-> t])
    /\ UNCHANGED <<now, tierVars, catalogVars, tableVars, jobVars, submitted>>

\* enrollments.py 28-48, manager.py 29-57: the existence checks.
EnrollCheck(p) ==
    /\ pc[p] = "enroll_check"
    /\ LET found == EnrollmentsOf(req[p].user, req[p].training)
       IN  IF req[p].op = "assign" /\ req[p].user \notin Users
           THEN Respond(p, "UserNotFound")
           ELSE IF req[p].training \notin trainings THEN Respond(p, "TrainingNotFound")
           ELSE IF Cardinality(found) >= 2 THEN Respond(p, "MultipleResultsFound")
           ELSE IF Cardinality(found) = 1 THEN Respond(p, "AlreadyEnrolled")
           ELSE Goto(p, "enroll_commit")
    /\ UNCHANGED <<now, tierVars, catalogVars, tableVars, jobVars, submitted>>

\* enrollments.py 50-65, manager.py 59-85: insert, notify, commit.
EnrollCommit(p) ==
    /\ pc[p] = "enroll_commit"
    /\ \E e \in EnrollmentIds : enrollments[e] = NoRec
    /\ enrollments' = [enrollments EXCEPT ![FreshEnrollmentId] =
                          NewEnrollment(req[p].user, req[p].training, req[p].op = "assign")]
    /\ notifications' = Insert(notifications,
                               Notification(req[p].user,
                                            IF req[p].op = "assign" THEN "TRAINING_ASSIGNED"
                                            ELSE "SESSION_SCHEDULED"))
    /\ Respond(p, "Enrolled")
    /\ UNCHANGED <<now, tierVars, catalogVars, progress, attendance, completions,
                   badges, jobVars, submitted>>

---------------------------------------------------------------------------
(* Specification SpecEnroll: enroll and assign requests interleave *)

EnrollInit ==
    /\ now = 0
    /\ TierUnused
    /\ trainings = {"t1"}
    /\ sessions = {}
    /\ modules = [m \in {} |-> NoRow]
    /\ lessons = [l \in {} |-> NoRow]
    /\ enrollments = [e \in EnrollmentIds |-> NoRec]
    /\ progress = EmptyBag /\ attendance = EmptyBag /\ completions = EmptyBag
    /\ badges = EmptyBag /\ notifications = EmptyBag
    /\ ProcsIdle /\ JobIdle /\ NoSubmissions

ConcEnrollStart == \E p \in Procs, u \in Users, t \in TrainingIds : EnrollStart(p, u, t)

ConcAssignStart == \E p \in Procs, u \in Users, t \in TrainingIds : AssignStart(p, u, t)

EnrollNext ==
    \/ ConcEnrollStart
    \/ ConcAssignStart
    \/ \E p \in Procs : EnrollCheck(p)
    \/ \E p \in Procs : EnrollCommit(p)

SpecEnroll == EnrollInit /\ [][EnrollNext]_vars

\* C9: at most one Enrollment per (user_id, training_id) in every reachable
\* state, whatever the interleaving of enroll and assign requests.
C9_OneEnrollmentPerPair ==
    \A u \in Users, t \in TrainingIds : Cardinality(EnrollmentsOf(u, t)) <= 1

---------------------------------------------------------------------------
(* Attendance: src/api/routes/attendance.py *)

\* A handler that runs with no other request in between: request and response
\* in one step.
Serve(p, r, result) ==
    /\ pc[p] = "idle"
    /\ req' = [req EXCEPT ![p] = r]
    /\ outcome' = [outcome EXCEPT ![p] = result]
    /\ UNCHANGED <<pc, loc>>

SessionIdsIn(S) == {x.id : x \in S}

\* select(Attendance).where(session_id, enrollment_id, attendance_date): count
AttendanceCount(B, s, e, d) ==
    CountRows(B, {a \in Rows(B) : a.session = s /\ a.enrollment = e /\ a.date = d})

\* Mutant: the 'attendance already exists?' check of lines 52-64 left out.
MarkResultNoCheck(s, e, d) ==
    IF s \notin SessionIdsIn(sessions) THEN "SessionNotFound"
    ELSE IF enrollments[e] = NoRec THEN "EnrollmentNotFound"
    ELSE "Created"

\* Lines 31-64: the response of mark_attendance.
MarkResult(s, e, d) ==
    IF s \notin SessionIdsIn(sessions) THEN "SessionNotFound"
    ELSE IF enrollments[e] = NoRec THEN "EnrollmentNotFound"
    ELSE IF AttendanceCount(attendance, s, e, d) >= 2 THEN "MultipleResultsFound"
    ELSE IF AttendanceCount(attendance, s, e, d) = 1 THEN "AlreadyMarked"
    ELSE "Created"

\* Lines 20-77: mark_attendance.
mark_attendance(p, s, e, d, st, h) ==
    /\ Serve(p, [op |-> "mark", session |-> s, enrollment |-> e, date |-> d,
                 status |-> st, hours |-> h],
             MarkResult(s, e, d))
    /\ IF MarkResult(s, e, d) = "Created"
       THEN attendance' = Insert(attendance,
                                 [session |-> s, enrollment |-> e, date |-> d,
                                  status |-> st, hours_attended |-> h])
       ELSE UNCHANGED attendance
    /\ UNCHANGED <<now, tierVars, catalogVars, enrollments, progress, completions,
                   badges, notifications, jobVars, submitted>>

\* Lines 176-203: update_attendance on the row a (found by its id); st and h
\* are None when the parameter is not given.
update_attendance(p, a, st, h) ==
    /\ a \in Rows(attendance)
    /\ Serve(p, [op |-> "update", row |-> a, status |-> st, hours |-> h], "Updated")
    /\ attendance' =
           Insert(Delete(attendance, a),
                  [a EXCEPT !.status = IF st = None THEN @ ELSE st[1],
                            !.hours_attended = IF h = None THEN @ ELSE h[1]])
    /\ UNCHANGED <<now, tierVars, catalogVars, enrollments, progress, completions,
                   badges, notifications, jobVars, submitted>>

---------------------------------------------------------------------------
(* Completion Calculator: src/api/routes/completions.py *)

\* select(TrainingCompletion).where(enrollment_id == e): number of rows
CompletionCount(B, e) == CountRows(B, {c \in Rows(B) : c.enrollment = e})

\* Mutant: the completions table without the unique index on enrollment_id.
NotUniqueEnrollmentId(B, e) == TRUE

\* src/models/completion.py line 20, unique=True on enrollment_id: the storage
\* accepts an INSERT only if no committed row has this enrollment_id.
UniqueEnrollmentId(B, e) == CompletionCount(B, e) = 0

\* Sum of hours_attended over the rows of bag B among the distinct rows S.
SumAttended(B, S) ==
    LET RECURSIVE Sum(_)
        Sum(T) == IF T = {} THEN 0
                  ELSE LET r == CHOOSE x \in T : TRUE
                       IN CopiesIn(r, B) * r.hours_attended + Sum(T \ {r})
    IN Sum(S)

\* Lines 62-67: the sessions of training t.
AllSessions(t) == {x \in sessions : x.training = t}

\* Mutant: line 92 sums the hours of the PRESENT records only.
NewCompletionPresentHours(e, assessment_score, passed) ==
    LET total_sessions == Cardinality(AllSessions(enrollments[e].training))
        records  == {a \in Rows(attendance) : a.enrollment = e}
        present  == {a \in records : a.status = "PRESENT"}
    IN  [enrollment |-> e, user |-> enrollments[e].user,
         training |-> enrollments[e].training, completed_at |-> now,
         learning_hours |-> SumAttended(attendance, present),
         attendance_percentage |-> [num |-> CountRows(attendance, present) * 100,
                                    den |-> total_sessions],
         assessment_score |-> assessment_score, passed |-> passed,
         certificate_issued |-> FALSE, certificate_url |-> None]

\* Lines 62-106: the TrainingCompletion the calculator builds.  The percentage
\* attended_sessions / total_sessions * 100 is kept as the fraction num/den.
NewCompletion(e, assessment_score, passed) ==
    LET total_sessions == Cardinality(AllSessions(enrollments[e].training))
        records  == {a \in Rows(attendance) : a.enrollment = e}
        attended == CountRows(attendance, {a \in records : a.status = "PRESENT"})
    IN  [enrollment |-> e, user |-> enrollments[e].user,
         training |-> enrollments[e].training, completed_at |-> now,
         learning_hours |-> SumAttended(attendance, records),
         attendance_percentage |-> [num |-> attended * 100, den |-> total_sessions],
         assessment_score |-> assessment_score, passed |-> passed,
         certificate_issued |-> FALSE, certificate_url |-> None]

CalcStart(p, e, assessment_score, passed) ==
    /\ Begin(p, "calc_check", [op |-> "calculate", enrollment |-> e,
                               assessment_score |-> assessment_score, passed |-> passed])
    /\ UNCHANGED <<now, tierVars, catalogVars, tableVars, jobVars, submitted>>

\* Mutant: the 'completion already exists?' check of lines 43-52 left out.
CalcCheckNoExisting(p) ==
    /\ pc[p] = "calc_check"
    /\ IF enrollments[req[p].enrollment] = NoRec THEN Respond(p, "EnrollmentNotFound")
       ELSE Goto(p, "calc_commit")
    /\ UNCHANGED <<now, tierVars, catalogVars, tableVars, jobVars, submitted>>

\* Lines 35-52: load the enrollment, look for an existing completion.
CalcCheck(p) ==
    /\ pc[p] = "calc_check"
    /\ LET n == CompletionCount(completions, req[p].enrollment)
       IN  IF enrollments[req[p].enrollment] = NoRec THEN Respond(p, "EnrollmentNotFound")
           ELSE IF n >= 2 THEN Respond(p, "MultipleResultsFound")
           ELSE IF n = 1 THEN Respond(p, "CompletionExists")
           ELSE Goto(p, "calc_commit")
    /\ UNCHANGED <<now, tierVars, catalogVars, tableVars, jobVars, submitted>>

\* Mutant: the test of line 69 never true.
NoSessionsFoundNever(t) == FALSE

\* Line 69: not all_sessions
NoSessionsFound(t) == AllSessions(t) = {}

\* Mutant: the enrollment update of lines 110-112 not written.
CompletedEnrollmentNotWritten(row) == row

\* Mutant: line 112 left out, the percentage of the aggregator kept.
CompletedEnrollmentKeepsPercentage(row) ==
    [row EXCEPT !.status = "COMPLETED", !.completed_at = Some(now)]

\* Lines 110-112: the enrollment as the calculation leaves it.
CompletedEnrollment(row) ==
    [row EXCEPT !.status = "COMPLETED",
                !.completed_at = Some(now),
                !.completion_percentage = 10000]

\* Lines 54-114: load training, sessions and attendance, add the completion,
\* update the enrollment, commit.  A commit the storage refuses is rolled back
\* by get_session (src/core/db.py 108-110).
CalcCommit(p) ==
    /\ pc[p] = "calc_commit"
    /\ LET e == req[p].enrollment
           t == enrollments[e].training
       IN  IF t \notin trainings
           THEN Respond(p, "TrainingNotFound") /\ UNCHANGED <<completions, enrollments>>
           ELSE IF NoSessionsFound(t)
           THEN Respond(p, "NoSessions") /\ UNCHANGED <<completions, enrollments>>
           ELSE IF ~UniqueEnrollmentId(completions, e)
           THEN Respond(p, "IntegrityError") /\ UNCHANGED <<completions, enrollments>>
           ELSE /\ completions' =
                       Insert(completions,
                              NewCompletion(e, req[p].assessment_score, req[p].passed))
                /\ enrollments' = [enrollments EXCEPT
                                     ![e] = CompletedEnrollment(enrollments[e])]
                /\ Respond(p, "Created")
    /\ UNCHANGED <<now, tierVars, catalogVars, progress, attendance, badges,
                   notifications, jobVars, submitted>>

---------------------------------------------------------------------------
(* Specification SpecCompletion: calculate_and_create_completion requests  *)
(* interleave; attendance is marked and updated between them               *)

SessionDates       == {1, 2}

\* Enrollment e1 of u1 in t1 (two sessions) and e2 of u2 in t2 (no session).
CompletionInit ==
    /\ now = 0
    /\ TierUnused
    /\ trainings = {"t1", "t2"}
    /\ sessions = {[id |-> "s1", training |-> "t1", date |-> 1],
                   [id |-> "s2", training |-> "t1", date |-> 2]}
    /\ modules = [m \in {} |-> NoRow]
    /\ lessons = [l \in {} |-> NoRow]
    /\ enrollments = [e \in EnrollmentIds |->
                         IF e = "e1" THEN NewEnrollment("u1", "t1", FALSE)
                         ELSE IF e = "e2" THEN NewEnrollment("u2", "t2", TRUE)
                         ELSE NoRec]
    /\ progress = EmptyBag /\ attendance = EmptyBag /\ completions = EmptyBag
    /\ badges = EmptyBag /\ notifications = EmptyBag
    /\ ProcsIdle /\ JobIdle /\ NoSubmissions

ConcCalcStart ==
    \E p \in Procs, e \in EnrollmentIds, passed \in BOOLEAN : CalcStart(p, e, None, passed)

CompletionMark ==
    \E p \in Procs, s \in {"s1", "s3"}, d \in SessionDates, st \in {"PRESENT", "ABSENT"} :
        mark_attendance(p, s, "e1", d, st, 8)

CompletionNext ==
    \/ ConcCalcStart
    \/ \E p \in Procs : CalcCheck(p)
    \/ \E p \in Procs : CalcCommit(p)
    \/ CompletionMark

SpecCompletion == CompletionInit /\ [][CompletionNext]_vars

\* C2: TrainingCompletion rows and enrollments are at most 1:1 in every
\* reachable state, also when two calculations for one enrollment both pass
\* the existence check before either commits: the second commit fails on the
\* unique index.
C2_OneCompletionPerEnrollment ==
    /\ \A e \in EnrollmentIds : CompletionCount(completions, e) <= 1
    /\ \A p, q \in Procs :
           (p # q /\ pc[p] = "idle" /\ pc[q] = "idle"
                  /\ req[p].op = "calculate" /\ req[q].op = "calculate"
                  /\ req[p].enrollment = req[q].enrollment) =>
               ~(outcome[p] = "Created" /\ outcome[q] = "Created")

\* C2 witness: both requests passed the check, one created the row and the
\* other's commit was refused.
C2_Witness ==
    /\ req["p1"].op = "calculate" /\ req["p2"].op = "calculate"
    /\ req["p1"].enrollment = "e1" /\ req["p2"].enrollment = "e1"
    /\ outcome["p1"] = "Created" /\ outcome["p2"] = "IntegrityError"
    /\ CompletionCount(completions, "e1") = 1

\* C3: a calculation whose existence check runs when a completion for its
\* enrollment is already stored ends there with the 'already exists' error,
\* and the step changes neither the completions nor the enrollments.
C3_SecondCallConflicts ==
    [][\A p \in Procs :
          (pc[p] = "calc_check" /\ pc'[p] # "calc_check"
               /\ CompletionCount(completions, req[p].enrollment) >= 1) =>
              /\ pc'[p] = "idle"
              /\ outcome'[p] = "CompletionExists"
              /\ completions' = completions
              /\ enrollments' = enrollments]_vars

\* C3 witness: a call created the completion of e1 and a later call for e1
\* was answered 'already exists'; one completion is stored.
C3_Witness ==
    /\ req["p1"].op = "calculate" /\ req["p1"].enrollment = "e1"
    /\ outcome["p1"] = "CompletionExists"
    /\ CompletionCount(completions, "e1") = 1
    /\ enrollments["e1"].status = "COMPLETED"

\* The calculation of process p commits or fails in this step.
CalcEnds(p) == pc[p] \in {"calc_check", "calc_commit"} /\ pc'[p] = "idle"

\* C11: the TrainingCompletion and the enrollment update are committed
\* together.  A step adds a completion for e exactly when it writes status
\* COMPLETED, completed_at and percentage 100 to e, a calculation that fails
\* changes neither table, and in every state an enrollment has a completion
\* exactly when it carries the update.
C11_CompletionAndEnrollmentTogether ==
    /\ [](\A e \in EnrollmentIds :
             enrollments[e] # NoRec =>
                 (CompletionCount(completions, e) = 1
                     <=> /\ enrollments[e].status = "COMPLETED"
                         /\ enrollments[e].completed_at # None
                         /\ enrollments[e].completion_percentage = 10000))
    /\ [][\A p \in Procs :
             CalcEnds(p) =>
                 LET e == req[p].enrollment
                 IN  IF outcome'[p] = "Created"
                     THEN /\ CompletionCount(completions', e) = CompletionCount(completions, e) + 1
                          /\ enrollments' = [enrollments EXCEPT ![e] = CompletedEnrollment(@)]
                          /\ enrollments'[e] # enrollments[e]
                     ELSE UNCHANGED <<completions, enrollments>>]_vars

\* One calculation committed both writes, the other passed the existence
\* check as well, failed at its commit and left both tables alone.
C11_Witness ==
    /\ req["p1"].op = "calculate" /\ req["p2"].op = "calculate"
    /\ req["p1"].enrollment = "e1" /\ req["p2"].enrollment = "e1"
    /\ outcome["p2"] = "Created" /\ outcome["p1"] = "IntegrityError"
    /\ CompletionCount(completions, "e1") = 1
    /\ enrollments["e1"] = CompletedEnrollment(NewEnrollment("u1", "t1", FALSE))

---------------------------------------------------------------------------
(* Specification SpecAttendance: mark_attendance and update_attendance,    *)
(* one call at a time                                                      *)

AttendanceInit == CompletionInit

AttendanceMark ==
    \E s \in {"s1", "s3"}, e \in {"e1", "e3"}, d \in SessionDates,
       st \in {"PRESENT", "ABSENT"} :
        AllQuiet /\ mark_attendance("p1", s, e, d, st, 8)

AttendanceUpdate ==
    \E a \in Rows(attendance), st \in {None, Some("PARTIAL")}, h \in {None, Some(4)} :
        AllQuiet /\ update_attendance("p1", a, st, h)

AttendanceNext ==
    \/ AttendanceMark
    \/ AttendanceUpdate

SpecAttendance == AttendanceInit /\ [][AttendanceNext]_vars

\* A step of process p is a mark_attendance call.
MarkStep(p) ==
    /\ req'[p].op = "mark"
    /\ req'[p] # req[p] \/ outcome'[p] # outcome[p] \/ attendance' # attendance

\* C10: there is at most one Attendance record per (session, enrollment,
\* date), and a mark_attendance call for a triple that has a record is
\* rejected and leaves the Attendance records as they were.
C10_DuplicateMarkRejected ==
    /\ [](\A a \in Rows(attendance) :
              AttendanceCount(attendance, a.session, a.enrollment, a.date) = 1)
    /\ [][\A p \in Procs :
             (MarkStep(p) /\ AttendanceCount(attendance, req'[p].session,
                                             req'[p].enrollment, req'[p].date) >= 1) =>
                 /\ outcome'[p] = "AlreadyMarked"
                 /\ attendance' = attendance]_vars

\* C10 witness: a triple was marked, then updated, and a second mark of the
\* same triple was answered 'already marked'.
C10_Witness ==
    /\ req["p1"].op = "mark" /\ outcome["p1"] = "AlreadyMarked"
    /\ req["p1"].status = "PRESENT" /\ req["p1"].hours = 8
    /\ attendance = SetToBag({[session |-> req["p1"].session,
                               enrollment |-> req["p1"].enrollment,
                               date |-> req["p1"].date,
                               status |-> "PARTIAL", hours_attended |-> 4]})

---------------------------------------------------------------------------
(* Content: src/api/routes/content.py *)

\* Lessons of module m.
LessonsOf(m) == {l \in DOMAIN lessons : lessons[l] = m}

\* Foreign key lesson_progress.lesson_id -> lessons.id (src/models/progress.py
\* line 18): a lesson some LessonProgress row refers to cannot be deleted.
Referenced(l) == \E r \in Rows(progress) : r.lesson = l

\* Lines 48-63: create_module with the new row's id m.
create_module(p, t, m) ==
    /\ modules[m] = NoRow
    /\ Serve(p, [op |-> "create_module", training |-> t],
             IF t \in trainings THEN "Created" ELSE "TrainingNotFound")
    /\ modules' = IF t \in trainings THEN [modules EXCEPT ![m] = t] ELSE modules
    /\ UNCHANGED <<now, tierVars, trainings, sessions, lessons, tableVars, jobVars,
                   submitted>>

\* Lines 111-135: create_lesson with the new row's id l.
create_lesson(p, m, l) ==
    /\ lessons[l] = NoRow
    /\ Serve(p, [op |-> "create_lesson", module |-> m],
             IF modules[m] # NoRow THEN "Created" ELSE "ModuleNotFound")
    /\ lessons' = IF modules[m] # NoRow THEN [lessons EXCEPT ![l] = m] ELSE lessons
    /\ UNCHANGED <<now, tierVars, trainings, sessions, modules, tableVars, jobVars,
                   submitted>>

\* Lines 169-181: delete_lesson.
delete_lesson(p, l) ==
    /\ LET result == IF lessons[l] = NoRow THEN "LessonNotFound"
                     ELSE IF Referenced(l) THEN "IntegrityError"
                     ELSE "Deleted"
       IN  /\ Serve(p, [op |-> "delete_lesson", lesson |-> l], result)
           /\ lessons' = IF result = "Deleted" THEN [lessons EXCEPT ![l] = NoRow]
                         ELSE lessons
    /\ UNCHANGED <<now, tierVars, trainings, sessions, modules, tableVars, jobVars,
                   submitted>>

\* Lines 87-106: delete_module, its lessons first.
delete_module(p, m) ==
    /\ LET result == IF modules[m] = NoRow THEN "ModuleNotFound"
                     ELSE IF \E l \in LessonsOf(m) : Referenced(l) THEN "IntegrityError"
                     ELSE "Deleted"
       IN  /\ Serve(p, [op |-> "delete_module", module |-> m], result)
           /\ lessons' = IF result = "Deleted"
                         THEN [l \in DOMAIN lessons |->
                                  IF lessons[l] = m THEN NoRow ELSE lessons[l]]
                         ELSE lessons
           /\ modules' = IF result = "Deleted" THEN [modules EXCEPT ![m] = NoRow]
                         ELSE modules
    /\ UNCHANGED <<now, tierVars, trainings, sessions, tableVars, jobVars, submitted>>

---------------------------------------------------------------------------
(* Lesson-Progress Aggregator: src/api/routes/progress.py complete_lesson *)

\* quiz_score is a Python float: a finite number or NaN (the query parameter
\* 'quiz_score: float' of line 24 accepts the text "nan").
Float(v) == [nan |-> FALSE, v |-> v]
NaN      == [nan |-> TRUE, v |-> 0]

\* a > b on floats: false when either side is NaN.
Gt(a, b) == ~a.nan /\ ~b.nan /\ a.v > b.v

\* Python's max(a, b): b when b > a, otherwise a.
PyMax(a, b) == IF Gt(b, a) THEN b ELSE a

\* The history of quiz_score values submitted for (u, l), s added.
Submit(u, l, s) ==
    [x \in DOMAIN submitted \cup {<<u, l>>} |->
        IF x = <<u, l>>
        THEN (IF x \in DOMAIN submitted THEN submitted[x] ELSE {}) \cup {s}
        ELSE submitted[x]]

\* Mutant: the percentage cut to two decimals instead of rounded.
RoundHundredthsDown(c, n) == (10000 * c) \div n

\* round(x, 2) of x = 100 * c / n, in hundredths: the nearest integer to
\* 10000 * c / n, a tie going to the even one.
RoundHundredths(c, n) ==
    LET q == (10000 * c) \div n
        r == (10000 * c) % n
    IN  IF 2 * r > n THEN q + 1
        ELSE IF 2 * r < n THEN q
        ELSE IF q % 2 = 0 THEN q ELSE q + 1

\* select(LessonProgress).where(user_id == u, lesson_id == l)
ProgressRows(u, l) == {r \in Rows(progress) : r.user = u /\ r.lesson = l}

\* Lines 74-77: the lesson ids of all modules of training t.
LessonsOfTraining(t) ==
    {l \in DOMAIN lessons : lessons[l] # NoRow /\ modules[lessons[l]] = t}

\* Lines 80-86: the user's completed LessonProgress rows among those lessons.
CompletedCount(u, t) ==
    CountRows(progress, {r \in Rows(progress) :
                            r.user = u /\ r.lesson \in LessonsOfTraining(t) /\ r.is_completed})

LessonStart(p, u, l, quiz_score) ==
    /\ Begin(p, "lesson_check",
             [op |-> "complete_lesson", user |-> u, lesson |-> l, quiz_score |-> quiz_score])
    /\ UNCHANGED <<now, tierVars, catalogVars, tableVars, jobVars, submitted>>

\* Lines 27-37: load the lesson and the user's progress row for it.
LessonCheck(p) ==
    /\ pc[p] = "lesson_check"
    /\ LET found == ProgressRows(req[p].user, req[p].lesson)
       IN  IF lessons[req[p].lesson] = NoRow THEN Respond(p, "LessonNotFound")
           ELSE IF CountRows(progress, found) >= 2 THEN Respond(p, "MultipleResultsFound")
           ELSE GotoWith(p, "lesson_upsert",
                         [module |-> lessons[req[p].lesson],
                          row |-> IF found = {} THEN NoRec ELSE CHOOSE r \in found : TRUE])
    /\ UNCHANGED <<now, tierVars, catalogVars, tableVars, jobVars, submitted>>

\* Line 42: max(progress.quiz_score, quiz_score)
NewScore(old, quiz_score) == PyMax(old, quiz_score)

\* Lines 39-53: update the loaded row or insert a new one, commit.  The
\* UPDATE goes to the row that was loaded (cur is its stored state) and
\* carries the attributes whose value differs from the loaded one.
LessonUpsert(p) ==
    /\ pc[p] = "lesson_upsert"
    /\ LET u == req[p].user
           l == req[p].lesson
           s == req[p].quiz_score
           old == loc[p].row
       IN  IF old = NoRec
           THEN IF lessons[l] = NoRow
                THEN Respond(p, "IntegrityError") /\ UNCHANGED <<progress, submitted>>
                ELSE /\ progress' = Insert(progress,
                                           [user |-> u, lesson |-> l, is_completed |-> TRUE,
                                            completed_at |-> Some(now), quiz_score |-> s])
                     /\ submitted' = Submit(u, l, s)
                     /\ GotoWith(p, "lesson_rollup_read", loc[p])
           ELSE \E cur \in ProgressRows(u, l) :
                     /\ progress' =
                            Insert(Delete(progress, cur),
                                   [cur EXCEPT
                                      !.is_completed = TRUE,
                                      !.completed_at = Some(now),
                                      !.quiz_score =
                                          IF NewScore(old.quiz_score, s) = old.quiz_score
                                          THEN @ ELSE NewScore(old.quiz_score, s)])
                     /\ submitted' = Submit(u, l, s)
                     /\ GotoWith(p, "lesson_rollup_read", loc[p])
    /\ UNCHANGED <<now, tierVars, catalogVars, enrollments, attendance, completions,
                   badges, notifications, jobVars>>

\* Lines 57-86: resolve the training, load the enrollment, count the lessons.
LessonRollupRead(p) ==
    /\ pc[p] = "lesson_rollup_read"
    /\ LET u == req[p].user
           t == modules[loc[p].module]
           found == EnrollmentsOf(u, t)
       IN  IF t = NoRow \/ found = {} THEN Respond(p, "Completed")
           ELSE IF Cardinality(found) >= 2 THEN Respond(p, "MultipleResultsFound")
           ELSE LET e == CHOOSE x \in found : TRUE
                IN  IF Cardinality(LessonsOfTraining(t)) = 0 THEN Respond(p, "Completed")
                    ELSE GotoWith(p, "lesson_rollup_commit",
                                  [enrollment |-> e, loaded |-> enrollments[e],
                                   total_lessons |-> Cardinality(LessonsOfTraining(t)),
                                   completed_count |-> CompletedCount(u, t)])
    /\ UNCHANGED <<now, tierVars, catalogVars, tableVars, jobVars, submitted>>

\* Mutant: line 95 without the test that the status is ENROLLED.
RollupStatusAnyToInProgress(status, completed_count, total_lessons) ==
    IF completed_count >= total_lessons THEN "COMPLETED"
    ELSE IF completed_count > 0 THEN "IN_PROGRESS"
    ELSE status

\* Mutant: line 95 takes a DROPPED enrollment up again like an ENROLLED one.
RollupStatusDroppedResumes(status, completed_count, total_lessons) ==
    IF completed_count >= total_lessons THEN "COMPLETED"
    ELSE IF completed_count > 0 /\ status \in {"ENROLLED", "DROPPED"} THEN "IN_PROGRESS"
    ELSE status

\* Lines 92-96: the status after the roll-up, from the loaded status.
RollupStatus(status, completed_count, total_lessons) ==
    IF completed_count >= total_lessons THEN "COMPLETED"
    ELSE IF completed_count > 0 /\ status = "ENROLLED" THEN "IN_PROGRESS"
    ELSE status

\* Lines 88-99: write percentage, status and completed_at, commit.  The UPDATE
\* carries the attributes whose value differs from the loaded one.
LessonRollupCommit(p) ==
    /\ pc[p] = "lesson_rollup_commit"
    /\ LET e == loc[p].enrollment
           old == loc[p].loaded
           c == loc[p].completed_count
           n == loc[p].total_lessons
           pct == RoundHundredths(c, n)
           st == RollupStatus(old.status, c, n)
           at == IF c >= n THEN Some(now) ELSE old.completed_at
       IN  enrollments' = [enrollments EXCEPT
                ![e].completion_percentage = IF pct = old.completion_percentage THEN @ ELSE pct,
                ![e].status = IF st = old.status THEN @ ELSE st,
                ![e].completed_at = IF at = old.completed_at THEN @ ELSE at]
    /\ Respond(p, "Completed")
    /\ UNCHANGED <<now, tierVars, catalogVars, progress, attendance, completions,
                   badges, notifications, jobVars, submitted>>

---------------------------------------------------------------------------
(* Specification SpecProgress: one user works through a training; requests  *)
(* are served one at a time.  Lessons and modules come and go in between.   *)

DefaultScore == Float(0)                  \* line 24: quiz_score: float = 0.0
QuizScores   == {DefaultScore, Float(90), NaN}

\* The module a lesson id is created in.
LessonModule(l) == IF l % 2 = 1 THEN "m1" ELSE "m2"

\* Training t1 with one session, modules m1 and m2, lesson 1 in m1.
ProgressInit ==
    /\ now = 0
    /\ TierUnused
    /\ trainings = {"t1"}
    /\ sessions = {[id |-> "s1", training |-> "t1", date |-> 1]}
    /\ modules = [m \in ModuleIds |-> "t1"]
    /\ lessons = [l \in LessonIds |-> IF l = 1 THEN "m1" ELSE NoRow]
    /\ enrollments = [e \in EnrollmentIds |-> NoRec]
    /\ progress = EmptyBag /\ attendance = EmptyBag /\ completions = EmptyBag
    /\ badges = EmptyBag /\ notifications = EmptyBag
    /\ ProcsIdle /\ JobIdle /\ NoSubmissions

SeqEnrollStart == AllQuiet /\ EnrollStart("p1", "u1", "t1")

SeqLessonStart ==
    /\ AllQuiet
    /\ \E l \in LessonIds :
           \E s \in (IF l = 1 THEN QuizScores ELSE {DefaultScore}) :
               LessonStart("p1", "u1", l, s)

SeqCalcStart == AllQuiet /\ CalcStart("p1", "e1", None, TRUE)

SeqCreateLesson == AllQuiet /\ \E l \in LessonIds : create_lesson("p1", LessonModule(l), l)

SeqDeleteLesson == AllQuiet /\ \E l \in LessonIds : delete_lesson("p1", l)

SeqDeleteModule == AllQuiet /\ delete_module("p1", "m2")

SeqCreateModule == AllQuiet /\ create_module("p1", "t1", "m2")

ProgressNext ==
    \/ SeqEnrollStart
    \/ EnrollCheck("p1")
    \/ EnrollCommit("p1")
    \/ SeqLessonStart
    \/ LessonCheck("p1")
    \/ LessonUpsert("p1")
    \/ LessonRollupRead("p1")
    \/ LessonRollupCommit("p1")
    \/ SeqCalcStart
    \/ CalcCheck("p1")
    \/ CalcCommit("p1")
    \/ SeqCreateLesson
    \/ SeqDeleteLesson
    \/ SeqDeleteModule
    \/ SeqCreateModule

SpecProgress == ProgressInit /\ [][ProgressNext]_vars

StatusRank(st) == CASE st = "ENROLLED" -> 0 [] st = "IN_PROGRESS" -> 1 [] st = "COMPLETED" -> 2

\* C7: with requests served one at a time, no step moves an enrollment's
\* status backward: never from COMPLETED to ENROLLED or IN_PROGRESS, never
\* from IN_PROGRESS to ENROLLED; a COMPLETED enrollment stays COMPLETED through
\* further lesson completions, also after lessons were added or removed.
C7_StatusOnlyAdvances ==
    [][\A e \in EnrollmentIds :
          enrollments[e] # NoRec =>
              /\ enrollments'[e] # NoRec
              /\ StatusRank(enrollments'[e].status) >= StatusRank(enrollments[e].status)]_vars

\* A lesson was added after the enrollment was COMPLETED, and a further lesson
\* completion that found fewer completed lessons than lessons has been served.
C7_Witness ==
    /\ pc["p1"] = "idle" /\ req["p1"].op = "complete_lesson" /\ outcome["p1"] = "Completed"
    /\ enrollments["e1"] # NoRec
    /\ enrollments["e1"].status = "COMPLETED"
    /\ enrollments["e1"].completion_percentage < 10000
    /\ CompletedCount("u1", "t1") > 0
    /\ CompletedCount("u1", "t1") < Cardinality(LessonsOfTraining("t1"))

\* C28: every Enrollment with status COMPLETED has completion_percentage 100
\* and a completed_at, after any sequence of complete_lesson, completion
\* calculation, create_lesson, delete_lesson and delete_module requests
\* served one at a time.
C28_CompletedMeansHundred ==
    \A e \in EnrollmentIds :
        (enrollments[e] # NoRec /\ enrollments[e].status = "COMPLETED") =>
            /\ enrollments[e].completion_percentage = 10000
            /\ enrollments[e].completed_at # None

\* x is a higher score than m: a number above m, or any number when m is NaN.
Higher(x, m) == ~x.nan /\ (m.nan \/ x.v > m.v)

\* m is the maximum of S: one of the submitted values, none of them higher.
IsMaximumOf(m, S) == m \in S /\ \A x \in S : ~Higher(x, m)

\* C8: for every (user, lesson) the stored quiz_score equals the maximum of
\* the quiz_score values submitted so far, and no step lowers it.
C8_QuizScoreIsMaxSubmitted ==
    /\ [](\A r \in Rows(progress) :
             /\ <<r.user, r.lesson>> \in DOMAIN submitted
             /\ IsMaximumOf(r.quiz_score, submitted[<<r.user, r.lesson>>]))
    /\ [][\A r \in Rows(progress), r2 \in Rows(progress') :
             (r.user = r2.user /\ r.lesson = r2.lesson) => ~Higher(r.quiz_score, r2.quiz_score)]_vars

---------------------------------------------------------------------------
(* Specification SpecCourse: a training of CourseLessons lessons in two      *)
(* modules; two users complete lessons in any order, one request at a time,  *)
(* while the last lesson may be deleted and created again.                   *)

CourseLessons == 4

\* The quiz_score u1 sends with lesson l.
CourseScore(l) == IF l = 1 THEN Float(70) ELSE IF l = 2 THEN Float(90) ELSE DefaultScore

CourseInit ==
    /\ now = 0
    /\ TierUnused
    /\ trainings = {"t1"}
    /\ sessions = {[id |-> "s1", training |-> "t1", date |-> 1]}
    /\ modules = [m \in ModuleIds |-> "t1"]
    /\ lessons = [l \in 1..CourseLessons |-> LessonModule(l)]
    /\ enrollments = [e \in EnrollmentIds |-> NoRec]
    /\ progress = EmptyBag /\ attendance = EmptyBag /\ completions = EmptyBag
    /\ badges = EmptyBag /\ notifications = EmptyBag
    /\ ProcsIdle /\ JobIdle /\ NoSubmissions

CourseEnrollStart == AllQuiet /\ EnrollStart("p1", "u1", "t1")

CourseLessonStart ==
    /\ AllQuiet
    /\ \/ \E l \in 1..CourseLessons : LessonStart("p1", "u1", l, CourseScore(l))
       \/ \E l \in 1..CourseLessons : LessonStart("p1", "u2", l, DefaultScore)

CourseCreateLesson ==
    AllQuiet /\ create_lesson("p1", LessonModule(CourseLessons), CourseLessons)

CourseDeleteLesson == AllQuiet /\ delete_lesson("p1", CourseLessons)

CourseNext ==
    \/ CourseEnrollStart
    \/ EnrollCheck("p1")
    \/ EnrollCommit("p1")
    \/ CourseLessonStart
    \/ LessonCheck("p1")
    \/ LessonUpsert("p1")
    \/ LessonRollupRead("p1")
    \/ LessonRollupCommit("p1")
    \/ CourseCreateLesson
    \/ CourseDeleteLesson

SpecCourse == CourseInit /\ [][CourseNext]_vars

\* The lessons of training t that user u has completed.
LessonsCompletedBy(u, t) ==
    {l \in LessonsOfTraining(t) :
        \E r \in Rows(progress) : r.user = u /\ r.lesson = l /\ r.is_completed}

\* x is the multiple of 0.01 nearest to 100 * c / n (x in hundredths).
NearestHundredth(x, c, n) ==
    LET d == x * n - 10000 * c
    IN  2 * (IF d < 0 THEN 0 - d ELSE d) <= n

---------------------------------------------------------------------------
(* Session reminders: src/core/scheduler.py send_session_reminders.  One    *)
(* clock tick is one day here.                                              *)

\* Line 40: (datetime.utcnow() + timedelta(days=1)).date()
Tomorrow == now + 1

\* src/core/notifications.py 112-127: the SESSION_REMINDER for user u about
\* session s; its message names the training and the session's date.
SessionReminder(u, s) ==
    [user |-> u, type |-> "SESSION_REMINDER", training |-> s.training, date |-> s.date]

\* The run ends: the locals are dropped, the log stays.
ReminderEnd(st, sent) ==
    reminder' = [IdleReminder EXCEPT !.status = st, !.sent = sent,
                                     !.targets = reminder.targets,
                                     !.raised = reminder.raised,
                                     !.runs = reminder.runs + 1]

\* Mutant: line 44 selects the sessions dated tomorrow or later.
ReminderStartFromTomorrow ==
    /\ reminder.pc = "idle"
    /\ reminder.runs < MaxJobRuns
    /\ reminder' = [IdleReminder EXCEPT
                      !.pc = "sessions",
                      !.todo = {x \in sessions : x.date >= Tomorrow},
                      !.status = "running",
                      !.runs = reminder.runs]
    /\ UNCHANGED <<now, tierVars, catalogVars, tableVars, procVars, jobPc, job, jobRuns, schedVars,
                   submitted>>

\* Lines 38-47: open the session, select the sessions dated tomorrow.
ReminderStart ==
    /\ reminder.pc = "idle"
    /\ reminder.runs < MaxJobRuns
    /\ reminder' = [IdleReminder EXCEPT
                      !.pc = "sessions",
                      !.todo = {x \in sessions : x.date = Tomorrow},
                      !.status = "running",
                      !.runs = reminder.runs]
    /\ UNCHANGED <<now, tierVars, catalogVars, tableVars, procVars, jobPc, job, jobRuns, schedVars,
                   submitted>>

\* Lines 54-68: the next session of the outer loop: select the enrollments of
\* its training, load the training.  On a session whose transaction a failed
\* flush has rolled back, the SELECT raises (PendingRollbackError) outside the
\* inner try, and the handler of lines 91-92 ends the job.
ReminderSession(s) ==
    /\ reminder.pc = "sessions"
    /\ s \in reminder.todo
    /\ LET found == {e \in DOMAIN enrollments :
                        enrollments[e] # NoRec /\ enrollments[e].training = s.training}
       IN  IF reminder.aborted THEN ReminderEnd(JobFailure, EmptyBag)
           ELSE IF s.training \notin trainings \/ found = {}
           THEN reminder' = [reminder EXCEPT !.todo = @ \ {s}]
           ELSE reminder' = [reminder EXCEPT
                               !.todo = @ \ {s},
                               !.session = s,
                               !.enrollments = found,
                               !.targets = @ \cup {<<s, e>> : e \in found},
                               !.pc = "enrollments"]
    /\ UNCHANGED <<now, tierVars, catalogVars, tableVars, procVars, jobPc, job, jobRuns, schedVars,
                   submitted>>

\* Lines 71-86: one iteration of the inner loop.  create_notification adds
\* the row and flushes (notifications.py 39-40).  The flush succeeds (ok), or
\* the storage refuses it: the session's transaction is rolled back with all
\* rows flushed so far and stays unusable, so every later flush raises too.
\* Either exception is caught and logged by lines 83-86.
ReminderNotify(e, ok) ==
    /\ reminder.pc = "enrollments"
    /\ e \in reminder.enrollments
    /\ LET rest == reminder.enrollments \ {e}
           next == IF rest = {} THEN "sessions" ELSE "enrollments"
       IN  IF ok /\ ~reminder.aborted
           THEN reminder' = [reminder EXCEPT
                               !.enrollments = rest, !.pc = next,
                               !.pending = Insert(@, SessionReminder(enrollments[e].user,
                                                                     reminder.session))]
           ELSE reminder' = [reminder EXCEPT
                               !.enrollments = rest, !.pc = next,
                               !.pending = EmptyBag,
                               !.aborted = TRUE,
                               !.raised = @ \cup {<<reminder.session, e>>}]
    /\ UNCHANGED <<now, tierVars, catalogVars, tableVars, procVars, jobPc, job, jobRuns, schedVars,
                   submitted>>

\* Line 88: the one commit of the batch; on a rolled-back transaction it
\* raises and the handler of lines 91-92 ends the job.
ReminderCommit ==
    /\ reminder.pc = "sessions"
    /\ reminder.todo = {}
    /\ IF reminder.aborted
       THEN ReminderEnd(JobFailure, EmptyBag) /\ UNCHANGED notifications
       ELSE /\ notifications' = notifications (+) reminder.pending
            /\ ReminderEnd("committed", reminder.pending)
    /\ UNCHANGED <<now, tierVars, catalogVars, enrollments, progress, attendance,
                   completions, badges, procVars, jobPc, job, jobRuns, schedVars, submitted>>

\* Lines 32-36: get_settings or create_async_engine raises.
ReminderOpenFails ==
    /\ reminder.pc = "idle"
    /\ reminder.runs < MaxJobRuns
    /\ ReminderEnd(JobFailure, EmptyBag)
    /\ UNCHANGED <<now, tierVars, catalogVars, tableVars, procVars, jobPc, job, jobRuns, schedVars,
                   submitted>>

\* Lines 38-89: a statement outside the inner try raises (a query or the
\* commit refused by the storage); the session block is left without commit.
ReminderRaise ==
    /\ reminder.pc \in {"sessions", "enrollments"}
    /\ ReminderEnd(JobFailure, EmptyBag)
    /\ UNCHANGED <<now, tierVars, catalogVars, tableVars, procVars, jobPc, job, jobRuns, schedVars,
                   submitted>>

\* A day passes.
Tick ==
    /\ now < MaxDay
    /\ now' = now + 1
    /\ UNCHANGED <<tierVars, catalogVars, tableVars, procVars, jobVars, submitted>>

---------------------------------------------------------------------------
(* Specification SpecReminder: runs of send_session_reminders while days    *)
(* pass and users enroll                                                    *)

\* Sessions of t1 and t2 on day 1, another session of t1 on day 2; u1 is
\* enrolled in t1 and u2 in t2.
ReminderInit ==
    /\ now = 0
    /\ TierUnused
    /\ trainings = {"t1", "t2"}
    /\ sessions = {[id |-> "s1", training |-> "t1", date |-> 1],
                   [id |-> "s2", training |-> "t2", date |-> 1],
                   [id |-> "s3", training |-> "t1", date |-> 2]}
    /\ modules = [m \in {} |-> NoRow]
    /\ lessons = [l \in {} |-> NoRow]
    /\ enrollments = [e \in EnrollmentIds |->
                         IF e = "e1" THEN NewEnrollment("u1", "t1", FALSE)
                         ELSE IF e = "e2" THEN NewEnrollment("u2", "t2", FALSE)
                         ELSE NoRec]
    /\ progress = EmptyBag /\ attendance = EmptyBag /\ completions = EmptyBag
    /\ badges = EmptyBag /\ notifications = EmptyBag
    /\ ProcsIdle /\ JobIdle /\ NoSubmissions

ReminderEnrollStart == \E u \in Users, t \in TrainingIds : EnrollStart("p1", u, t)

ReminderNext ==
    \/ ReminderStart
    \/ \E s \in sessions : ReminderSession(s)
    \/ \E e \in EnrollmentIds, ok \in BOOLEAN : ReminderNotify(e, ok)
    \/ ReminderCommit
    \/ Tick
    \/ ReminderEnrollStart
    \/ EnrollCheck("p1")
    \/ EnrollCommit("p1")

SpecReminder == ReminderInit /\ [][ReminderNext]_vars

\* C14: when a run of send_session_reminders has ended, the batch is
\* committed and holds a SESSION_REMINDER for every enrollment the run visited
\* whose own emission did not raise.
C14_ReminderErrorIsolated ==
    (reminder.pc = "idle" /\ reminder.status # "none") =>
        /\ reminder.status = "committed"
        /\ \A x \in reminder.targets \ reminder.raised :
               CopiesIn(SessionReminder(enrollments[x[2]].user, x[1]), reminder.sent) >= 1

---------------------------------------------------------------------------
(* Specification SpecReminderDaily: one run of send_session_reminders a day  *)
(* over a fixed set of enrollments, nothing else running meanwhile.          *)

ReminderUsers == {"u1", "u2", "u3"}

\* The user of a seeded enrollment.
ReminderUserOf(e) == IF e = "e1" THEN "u1" ELSE IF e = "e2" THEN "u2" ELSE "u3"

\* Sessions of t1 and t2 on day 1, one session of t1 alone on day 2; each of
\* three users is enrolled in t1, in t2 or not at all.
ReminderDailyInit ==
    /\ now = 0
    /\ TierUnused
    /\ trainings = {"t1", "t2"}
    /\ sessions = {[id |-> "s1", training |-> "t1", date |-> 1],
                   [id |-> "s2", training |-> "t2", date |-> 1],
                   [id |-> "s3", training |-> "t1", date |-> 2]}
    /\ modules = [m \in {} |-> NoRow]
    /\ lessons = [l \in {} |-> NoRow]
    /\ \E f \in [EnrollmentIds -> {NoRow} \cup TrainingIds] :
           enrollments = [e \in EnrollmentIds |->
                             IF f[e] = NoRow THEN NoRec
                             ELSE NewEnrollment(ReminderUserOf(e), f[e], FALSE)]
    /\ progress = EmptyBag /\ attendance = EmptyBag /\ completions = EmptyBag
    /\ badges = EmptyBag /\ notifications = EmptyBag
    /\ ProcsIdle /\ JobIdle /\ NoSubmissions

DailyTick == AllQuiet /\ Tick

ReminderDailyNext ==
    \/ ReminderStart
    \/ \E s \in sessions : ReminderSession(s)
    \/ \E e \in EnrollmentIds, ok \in BOOLEAN : ReminderNotify(e, ok)
    \/ ReminderCommit
    \/ DailyTick

SpecReminderDaily == ReminderDailyInit /\ [][ReminderDailyNext]_vars

\* The (session, enrollment) pairs a reminder r is due for: sessions dated
\* tomorrow whose training exists, enrollments of that training.
ReminderDueFor(r) ==
    {x \in sessions \X EnrollmentIds :
        /\ x[1].date = Tomorrow
        /\ x[1].training \in trainings
        /\ enrollments[x[2]] # NoRec
        /\ enrollments[x[2]].training = x[1].training
        /\ SessionReminder(enrollments[x[2]].user, x[1]) = r}

\* C25: the commit of an error-free run of send_session_reminders adds, for
\* every session dated tomorrow whose training exists and every Enrollment of
\* that training, exactly one SESSION_REMINDER addressed to the enrollment's
\* user, and adds nothing else: nothing for a session of another date.
C25_RemindersForTomorrow ==
    [][(reminder.pc = "sessions" /\ reminder'.pc = "idle"
            /\ reminder'.status = "committed") =>
          \A r \in Rows(notifications') \cup
                    {SessionReminder(u, s) : u \in ReminderUsers, s \in sessions} :
              CopiesIn(r, notifications') =
                  CopiesIn(r, notifications) + Cardinality(ReminderDueFor(r))]_vars

\* On day 1 the one session of tomorrow is s3 of t1, in which three users
\* are enrolled: the run emitted three reminders, one per user, and these
\* are all the notifications there are.
C25_Witness ==
    /\ now = 1 /\ reminder.pc = "idle" /\ reminder.status = "committed"
    /\ \A e \in EnrollmentIds : enrollments[e] # NoRec /\ enrollments[e].training = "t1"
    /\ \A u \in ReminderUsers :
           CopiesIn([user |-> u, type |-> "SESSION_REMINDER", training |-> "t1", date |-> 2],
                    notifications) = 1
    /\ BagCardinality(notifications) = 3

---------------------------------------------------------------------------
(* Specification SpecJobs: both scheduled jobs run, interleaved, and may    *)
(* fail at any statement                                                    *)

\* Enrollment e1 of u1 as its completion, if any, left it.
SeedEnrollment(u, t, B) ==
    IF B = EmptyBag THEN NewEnrollment(u, t, FALSE)
    ELSE [NewEnrollment(u, t, FALSE) EXCEPT
            !.status = "COMPLETED",
            !.completed_at = Some((CHOOSE c \in BagToSet(B) : TRUE).completed_at),
            !.completion_percentage = 10000]

\* u1 and u2 are enrolled in t1, which has a session tomorrow; u1 may have
\* completed it.
JobsInit ==
    /\ now = 2 * TicksPerYear
    /\ TierUnused
    /\ trainings = {"t1"}
    /\ sessions = {[id |-> "s1", training |-> "t1", date |-> now + 1]}
    /\ modules = [m \in {} |-> NoRow]
    /\ lessons = [l \in {} |-> NoRow]
    /\ completions \in SeedCompletions({"e1"})
    /\ enrollments = [e \in EnrollmentIds |->
                         IF e = "e1" THEN SeedEnrollment("u1", "t1", completions)
                         ELSE IF e = "e2" THEN NewEnrollment("u2", "t1", FALSE)
                         ELSE NoRec]
    /\ progress = EmptyBag /\ attendance = EmptyBag
    /\ badges = EmptyBag /\ notifications = EmptyBag
    /\ ProcsIdle /\ JobIdle /\ NoSubmissions

JobsNext ==
    \/ JobStart
    \/ JobOpenFails
    \/ \E u \in Users : JobUser(u)
    \/ JobRaise
    \/ JobCommit
    \/ ReminderStart
    \/ ReminderOpenFails
    \/ \E s \in sessions : ReminderSession(s)
    \/ \E e \in EnrollmentIds, ok \in BOOLEAN : ReminderNotify(e, ok)
    \/ ReminderRaise
    \/ ReminderCommit

SpecJobs == JobsInit /\ [][JobsNext]_vars

\* C15: a failure in a scheduled job is logged, never raised: the run that
\* fails ends there (the job is idle again, one more run counted, none
\* started in the same step) and its step commits no Badge and no
\* Notification.
C15_JobFailureNotRaised ==
    /\ [](job.status # "raised" /\ reminder.status # "raised")
    /\ [][/\ (jobPc = "loop" /\ job'.status # "running" /\ job'.status # "committed") =>
                /\ job'.status = "error"
                /\ jobPc' = "idle" /\ jobRuns' = jobRuns + 1
                /\ UNCHANGED <<badges, notifications>>
          /\ (reminder.pc # "idle" /\ reminder'.status # "running"
                                   /\ reminder'.status # "committed") =>
                /\ reminder'.status = "error"
                /\ reminder'.pc = "idle" /\ reminder'.runs = reminder.runs + 1
                /\ UNCHANGED <<badges, notifications>>
          /\ (jobPc = "idle" /\ jobRuns' = jobRuns + 1) =>
                job'.status = "error" /\ jobPc' = "idle" /\ UNCHANGED <<badges, notifications>>
          /\ (reminder.pc = "idle" /\ reminder'.runs = reminder.runs + 1) =>
                /\ reminder'.status = "error" /\ reminder'.pc = "idle"
                /\ UNCHANGED <<badges, notifications>>]_vars

\* The yearly job failed after it had selected the completions of u1, who
\* qualifies; the reminder job failed after it had visited the enrollments of
\* a session; neither committed anything.
C15_Witness ==
    /\ jobPc = "idle" /\ job.status = "error" /\ jobRuns = 1 /\ job.year = JobYear
    /\ reminder.pc = "idle" /\ reminder.status = "error" /\ reminder.runs = 1
    /\ reminder.targets # {} /\ reminder.raised = {}
    /\ HoursInYear("u1", job.year) >= 20
    /\ badges = EmptyBag /\ notifications = EmptyBag

---------------------------------------------------------------------------
(* Specification SpecProgressConc: the requests of SpecProgress, served by  *)
(* two processes whose steps interleave                                     *)

ConcLessonStart == \E p \in Procs, l \in LessonIds : LessonStart(p, "u1", l, DefaultScore)

\* The learner's other requests come through p1, the content requests
\* through p2.
ConcProgressEnrollStart == EnrollStart("p1", "u1", "t1")

ConcProgressCalcStart == CalcStart("p1", "e1", None, TRUE)

ConcCreateLesson == \E l \in LessonIds : create_lesson("p2", LessonModule(l), l)

ConcDeleteLesson == \E l \in LessonIds : delete_lesson("p2", l)

ConcDeleteModule == delete_module("p2", "m2")

ConcCreateModule == create_module("p2", "t1", "m2")

ProgressConcNext ==
    \/ ConcProgressEnrollStart
    \/ \E p \in Procs : EnrollCheck(p)
    \/ \E p \in Procs : EnrollCommit(p)
    \/ ConcLessonStart
    \/ \E p \in Procs : LessonCheck(p)
    \/ \E p \in Procs : LessonUpsert(p)
    \/ \E p \in Procs : LessonRollupRead(p)
    \/ \E p \in Procs : LessonRollupCommit(p)
    \/ ConcProgressCalcStart
    \/ \E p \in Procs : CalcCheck(p)
    \/ \E p \in Procs : CalcCommit(p)
    \/ ConcCreateLesson
    \/ ConcDeleteLesson
    \/ ConcDeleteModule
    \/ ConcCreateModule

SpecProgressConc == ProgressInit /\ [][ProgressConcNext]_vars

\* C16: every Enrollment has 0 <= completion_percentage <= 100 (in
\* hundredths: 0..10000) in every reachable state.
C16_PercentageInRange ==
    \A e \in EnrollmentIds :
        enrollments[e] # NoRec =>
            /\ enrollments[e].completion_percentage >= 0
            /\ enrollments[e].completion_percentage <= 10000

\* C26: there is at most one LessonProgress row per (user_id, lesson_id) in
\* every reachable state, interleaved complete_lesson requests included.
C26_OneProgressRowPerUserLesson ==
    \A r \in Rows(progress) : CountRows(progress, ProgressRows(r.user, r.lesson)) <= 1

\* C27: when two complete_lesson requests of one enrolled user for two
\* different lessons of one training have both finished, and each lesson has
\* one LessonProgress row, the enrollment's completion_percentage is
\* 100 * c / n rounded to two decimals for the c lessons completed by then,
\* and its status is COMPLETED if c = n.
C27_NoStaleRollup ==
    \A e \in EnrollmentIds :
        (/\ enrollments[e] # NoRec
         /\ \A p \in Procs : /\ pc[p] = "idle"
                              /\ req[p].op = "complete_lesson"
                              /\ outcome[p] = "Completed"
                              /\ req[p].user = enrollments[e].user
                              /\ req[p].lesson \in LessonsOfTraining(enrollments[e].training)
         /\ EnrollmentsOf(enrollments[e].user, enrollments[e].training) = {e}
         /\ req["p1"].lesson # req["p2"].lesson
         /\ C26_OneProgressRowPerUserLesson) =>
            LET c == Cardinality(LessonsCompletedBy(enrollments[e].user,
                                                    enrollments[e].training))
                n == Cardinality(LessonsOfTraining(enrollments[e].training))
            IN  /\ enrollments[e].completion_percentage = RoundHundredths(c, n)
                /\ c = n => enrollments[e].status = "COMPLETED"

---------------------------------------------------------------------------
(* Specification SpecMetrics: attendance is marked and updated, then the    *)
(* completion is calculated; one request at a time                          *)

\* hours_attended is an unvalidated float parameter (attendance.py 27, 180).
HoursAttended == {-2, 8}

\* Training t1 has the one session s1, training t2 the session s2; u1 is
\* enrolled in t1.
MetricsInit ==
    /\ now = 0
    /\ TierUnused
    /\ trainings = {"t1", "t2"}
    /\ sessions = {[id |-> "s1", training |-> "t1", date |-> 1],
                   [id |-> "s2", training |-> "t2", date |-> 1]}
    /\ modules = [m \in {} |-> NoRow]
    /\ lessons = [l \in {} |-> NoRow]
    /\ enrollments = [e \in EnrollmentIds |->
                         IF e = "e1" THEN NewEnrollment("u1", "t1", FALSE) ELSE NoRec]
    /\ progress = EmptyBag /\ attendance = EmptyBag /\ completions = EmptyBag
    /\ badges = EmptyBag /\ notifications = EmptyBag
    /\ ProcsIdle /\ JobIdle /\ NoSubmissions

\* The (session, date) pairs marked: s1 on two dates, s2 of the other training.
MarkTargets == {<<"s1", 1>>, <<"s1", 2>>, <<"s2", 1>>}

MetricsMark ==
    \E x \in MarkTargets, st \in {"PRESENT", "ABSENT"}, h \in HoursAttended :
        AllQuiet /\ mark_attendance("p1", x[1], "e1", x[2], st, h)

MetricsUpdate ==
    \E a \in Rows(attendance) :
        AllQuiet /\ update_attendance("p1", a, Some("PRESENT"), None)

MetricsCalcStart == AllQuiet /\ CalcStart("p1", "e1", None, TRUE)

MetricsNext ==
    \/ MetricsMark
    \/ MetricsUpdate
    \/ MetricsCalcStart
    \/ CalcCheck("p1")
    \/ CalcCommit("p1")

SpecMetrics == MetricsInit /\ [][MetricsNext]_vars

\* C17: every TrainingCompletion has 0 <= attendance_percentage <= 100 and
\* learning_hours >= 0.
C17_CompletionMetricsInRange ==
    \A c \in Rows(completions) :
        /\ c.attendance_percentage.num >= 0
        /\ c.attendance_percentage.num <= 100 * c.attendance_percentage.den
        /\ c.learning_hours >= 0

---------------------------------------------------------------------------
(* Certificates: src/api/routes/completions.py issue_certificate.  A        *)
(* completion is addressed by its enrollment (enrollment_id is unique).     *)

\* Line 208: session.get(TrainingCompletion, completion_id)
CompletionsOf(e) == {c \in Rows(completions) : c.enrollment = e}

\* Mutant: the 'passed' test of lines 215-219 left out.
IssueResultNoPassedTest(found) ==
    IF found = {} THEN "CompletionNotFound" ELSE "Issued"

\* Lines 208-219: the checks of issue_certificate.
IssueResult(found) ==
    IF found = {} THEN "CompletionNotFound"
    ELSE IF \E c \in found : ~c.passed THEN "NotPassed"
    ELSE "Issued"

\* Lines 201-232: issue_certificate.
issue_certificate(p, e, certificate_url) ==
    /\ Serve(p, [op |-> "issue_certificate", enrollment |-> e,
                 certificate_url |-> certificate_url],
             IssueResult(CompletionsOf(e)))
    /\ IF IssueResult(CompletionsOf(e)) = "Issued"
       THEN \E c \in CompletionsOf(e) :
                completions' = Insert(Delete(completions, c),
                                      [c EXCEPT !.certificate_issued = TRUE,
                                                !.certificate_url = Some(certificate_url)])
       ELSE UNCHANGED completions
    /\ UNCHANGED <<now, tierVars, catalogVars, enrollments, progress, attendance,
                   badges, notifications, jobVars, submitted>>

---------------------------------------------------------------------------
(* Specification SpecCertificate: calculation, certificate issuance and     *)
(* attendance changes, one request at a time                                *)

CertificateUrls == {"url1", "url2"}

CertificateCalcStart == \E passed \in BOOLEAN : AllQuiet /\ CalcStart("p1", "e1", None, passed)

CertificateIssue ==
    \E e \in {"e1", "e2"}, u \in CertificateUrls : AllQuiet /\ issue_certificate("p1", e, u)

CertificateMark ==
    \E d \in SessionDates, st \in {"PRESENT", "ABSENT"} :
        AllQuiet /\ mark_attendance("p1", "s1", "e1", d, st, 8)

CertificateUpdate ==
    \E a \in Rows(attendance) : AllQuiet /\ update_attendance("p1", a, Some("PRESENT"), Some(4))

CertificateNext ==
    \/ CertificateCalcStart
    \/ CalcCheck("p1")
    \/ CalcCommit("p1")
    \/ CertificateIssue
    \/ CertificateMark
    \/ CertificateUpdate

SpecCertificate == MetricsInit /\ [][CertificateNext]_vars

\* The step serves an issue_certificate request for enrollment e successfully.
IssueStep(e) ==
    /\ req'["p1"].op = "issue_certificate"
    /\ req'["p1"].enrollment = e
    /\ outcome'["p1"] = "Issued"

\* C18: a stored TrainingCompletion stays stored, and no step changes its
\* completed_at, learning_hours, attendance_percentage, assessment_score or
\* passed (nor its user, training and enrollment); only a successful
\* issue_certificate for it changes certificate_issued and certificate_url,
\* and none does when passed is false.
C18_CompletionImmutable ==
    [][\A c \in Rows(completions) :
          LET after == {x \in Rows(completions') : x.enrollment = c.enrollment}
          IN  /\ after # {}
              /\ \A x \in after :
                     [x EXCEPT !.certificate_issued = c.certificate_issued,
                               !.certificate_url = c.certificate_url] = c
              /\ (~IssueStep(c.enrollment) \/ ~c.passed) => after = {c}]_vars

\* A certificate was issued for the completion of e1, and attendance of e1
\* was marked afterwards.
C18_Witness ==
    /\ req["p1"].op = "mark" /\ outcome["p1"] = "Created"
    /\ \E c \in CompletionsOf("e1") :
           /\ c.certificate_issued /\ c.certificate_url = Some("url2")
           /\ c.learning_hours = 0

---------------------------------------------------------------------------
(* Specification SpecStatus: user u1 holds an enrollment in any status of    *)
(* EnrollmentStatus, user u2 holds none; both complete lessons, completions  *)
(* are calculated and lessons come and go, one request at a time.            *)

\* src/models/enrollment.py 13-20
EnrollmentStatuses == {"ENROLLED", "IN_PROGRESS", "COMPLETED", "DROPPED", "FAILED"}

\* Enrollment e1 as enroll_in_training, the completion routes or a change of
\* status made in the database left it, before any lesson was completed.
StatusSeed(st) ==
    [NewEnrollment("u1", "t1", FALSE) EXCEPT
        !.status = st,
        !.completed_at = IF st = "COMPLETED" THEN Some(0) ELSE None,
        !.completion_percentage = IF st = "COMPLETED" THEN 10000 ELSE 0]

StatusInit ==
    /\ now = 1
    /\ TierUnused
    /\ trainings = {"t1"}
    /\ sessions = {[id |-> "s1", training |-> "t1", date |-> 1]}
    /\ modules = [m \in ModuleIds |-> "t1"]
    /\ lessons = [l \in LessonIds |-> IF l <= 2 THEN LessonModule(l) ELSE NoRow]
    /\ \E st \in EnrollmentStatuses \ {"IN_PROGRESS"} :
           enrollments = [e \in EnrollmentIds |-> IF e = "e1" THEN StatusSeed(st) ELSE NoRec]
    /\ progress = EmptyBag /\ attendance = EmptyBag /\ completions = EmptyBag
    /\ badges = EmptyBag /\ notifications = EmptyBag
    /\ ProcsIdle /\ JobIdle /\ NoSubmissions

StatusLessonStart ==
    /\ AllQuiet
    /\ \E u \in Users, l \in LessonIds : LessonStart("p1", u, l, DefaultScore)

StatusCalcStart == AllQuiet /\ \E passed \in BOOLEAN : CalcStart("p1", "e1", None, passed)

StatusNext ==
    \/ StatusLessonStart
    \/ LessonCheck("p1")
    \/ LessonUpsert("p1")
    \/ LessonRollupRead("p1")
    \/ LessonRollupCommit("p1")
    \/ StatusCalcStart
    \/ CalcCheck("p1")
    \/ CalcCommit("p1")
    \/ SeqCreateLesson
    \/ SeqDeleteLesson

SpecStatus == StatusInit /\ [][StatusNext]_vars

\* The step is one of a complete_lesson request.
LessonStep ==
    /\ req'["p1"].op = "complete_lesson"
    /\ pc["p1"] # pc'["p1"]

C23_CalculatorOverrides ==
    [][\A e \in EnrollmentIds :
          (pc["p1"] = "calc_commit" /\ req["p1"].enrollment = e
               /\ outcome'["p1"] = "Created") =>
              /\ enrollments'[e].status = "COMPLETED"
              /\ enrollments'[e].completed_at = Some(now)
              /\ enrollments'[e].completion_percentage = 10000
              /\ enrollments'[e].user = enrollments[e].user
              /\ enrollments'[e].training = enrollments[e].training]_vars

\* The calculation has just succeeded for e1, of whose two lessons u1 has
\* completed one: the 50 % of the aggregator was replaced by 100 %.
C23_Witness ==
    /\ pc["p1"] = "idle" /\ req["p1"].op = "calculate" /\ outcome["p1"] = "Created"
    /\ Cardinality(LessonsOfTraining("t1")) = 2
    /\ CompletedCount("u1", "t1") = 1
    /\ enrollments["e1"].status = "COMPLETED"
    /\ enrollments["e1"].completed_at = Some(now)
    /\ enrollments["e1"].completion_percentage = 10000

---------------------------------------------------------------------------
(* Specification SpecCalculator: a training with two sessions and two        *)
(* enrolled users; attendance of either is marked and updated with any       *)
(* status, then completions are calculated; one request at a time.           *)

\* src/models/attendance.py: AttendanceStatus
AttendanceStatuses == {"PRESENT", "ABSENT", "PARTIAL"}

\* The hours_attended sent for a session.
SessionHours(s) == IF s = "s1" THEN 8 ELSE 7

CalculatorInit ==
    /\ now = 0
    /\ TierUnused
    /\ trainings = {"t1"}
    /\ sessions = {[id |-> "s1", training |-> "t1", date |-> 1],
                   [id |-> "s2", training |-> "t1", date |-> 2]}
    /\ modules = [m \in {} |-> NoRow]
    /\ lessons = [l \in {} |-> NoRow]
    /\ enrollments = [e \in EnrollmentIds |->
                         IF e = "e1" THEN NewEnrollment("u1", "t1", FALSE)
                         ELSE IF e = "e2" THEN NewEnrollment("u2", "t1", FALSE)
                         ELSE NoRec]
    /\ progress = EmptyBag /\ attendance = EmptyBag /\ completions = EmptyBag
    /\ badges = EmptyBag /\ notifications = EmptyBag
    /\ ProcsIdle /\ JobIdle /\ NoSubmissions

\* e1 is marked for both sessions with any status, e2 for the second one.
CalculatorMark ==
    \/ \E x \in {<<"s1", 1>>, <<"s2", 2>>}, st \in AttendanceStatuses :
           AllQuiet /\ mark_attendance("p1", x[1], "e1", x[2], st, SessionHours(x[1]))
    \/ AllQuiet /\ mark_attendance("p1", "s2", "e2", 2, "PARTIAL", SessionHours("s2"))

\* A record of e1 is corrected to ABSENT, its hours left as they are.
CalculatorUpdate ==
    \E a \in Rows(attendance) :
        AllQuiet /\ a.enrollment = "e1" /\ update_attendance("p1", a, Some("ABSENT"), None)

CalculatorCalcStart ==
    AllQuiet /\ \E e \in {"e1", "e2"} : CalcStart("p1", e, None, TRUE)

CalculatorNext ==
    \/ CalculatorMark
    \/ CalculatorUpdate
    \/ CalculatorCalcStart
    \/ CalcCheck("p1")
    \/ CalcCommit("p1")

SpecCalculator == CalculatorInit /\ [][CalculatorNext]_vars

\* select(Attendance).where(enrollment_id == e)
AttendanceOf(e) == {a \in Rows(attendance) : a.enrollment = e}

\* C22: the TrainingCompletion a successful calculation stores for enrollment
\* e has attendance_percentage = PRESENT records of e / sessions of e's
\* training * 100 and learning_hours = the sum of hours_attended over all
\* records of e, whatever their status.
C22_CompletionMetrics ==
    [][\A e \in EnrollmentIds :
          (pc["p1"] = "calc_commit" /\ req["p1"].enrollment = e
               /\ outcome'["p1"] = "Created") =>
              \E c \in Rows(completions') :
                  /\ c.enrollment = e
                  /\ CopiesIn(c, completions') = CopiesIn(c, completions) + 1
                  /\ c.attendance_percentage.den =
                         Cardinality(AllSessions(enrollments[e].training))
                  /\ c.attendance_percentage.num =
                         100 * CountRows(attendance,
                                         {a \in AttendanceOf(e) : a.status = "PRESENT"})
                  /\ c.learning_hours = SumAttended(attendance, AttendanceOf(e))]_vars

\* Two sessions, both PRESENT with 8 and 7 hours, give 100 % and 15 hours
\* for e1; e2, with one PARTIAL record of 7 hours, got 0 % and 7 hours.
C22_Witness ==
    /\ AttendanceOf("e1") = {[session |-> "s1", enrollment |-> "e1", date |-> 1,
                              status |-> "PRESENT", hours_attended |-> 8],
                             [session |-> "s2", enrollment |-> "e1", date |-> 2,
                              status |-> "PRESENT", hours_attended |-> 7]}
    /\ \E c \in CompletionsOf("e1") :
           /\ c.attendance_percentage = [num |-> 200, den |-> 2]
           /\ c.learning_hours = 15
    /\ \E c \in CompletionsOf("e2") :
           /\ c.attendance_percentage = [num |-> 0, den |-> 2]
           /\ c.learning_hours = 7

---------------------------------------------------------------------------
(* Specification SpecBadgeYear: through year 1 completions are calculated    *)
(* and badges are requested on demand; the yearly job runs on the first     *)
(* tick of a year; one handler at a time.                                    *)

\* Enrollments e1 and e2 are u1's (trainings t1 and t2), e3 is u2's; each has
\* one PRESENT attendance record: u1's with 10, 20 or 40 hours, u2's with 20.
BadgeYearInit ==
    /\ now = YearStart(1)
    /\ TierUnused
    /\ trainings = {"t1", "t2"}
    /\ sessions = {[id |-> "s1", training |-> "t1", date |-> 1],
                   [id |-> "s2", training |-> "t2", date |-> 1]}
    /\ modules = [m \in {} |-> NoRow]
    /\ lessons = [l \in {} |-> NoRow]
    /\ enrollments = [e \in EnrollmentIds |->
                         NewEnrollment(SeedOwner(e), IF e = "e2" THEN "t2" ELSE "t1", FALSE)]
    /\ \E h \in [EnrollmentIds -> SeedHours] :
           /\ h["e3"] = 20
           /\ attendance = SetToBag({[session |-> IF e = "e2" THEN "s2" ELSE "s1",
                                      enrollment |-> e, date |-> 1, status |-> "PRESENT",
                                      hours_attended |-> h[e]] : e \in EnrollmentIds})
    /\ progress = EmptyBag /\ completions = EmptyBag
    /\ badges = EmptyBag /\ notifications = EmptyBag
    /\ ProcsIdle /\ JobIdle /\ NoSubmissions

YearCalcStart == AllQuiet /\ \E e \in EnrollmentIds : CalcStart("p1", e, None, TRUE)

YearAwardStart == AllQuiet /\ \E u \in Users : AwardStart("p1", u, 1)

\* The scheduler's cron trigger: 1 January, the first tick of a year.
YearJobStart == AllQuiet /\ now = YearStart(YearOf(now)) /\ JobStart

YearTick ==
    /\ AllQuiet
    /\ now < YearStart(2)
    /\ now' = now + 1
    /\ UNCHANGED <<tierVars, catalogVars, tableVars, procVars, jobVars, submitted>>

BadgeYearNext ==
    \/ YearCalcStart
    \/ CalcCheck("p1")
    \/ CalcCommit("p1")
    \/ YearAwardStart
    \/ AwardCheck("p1")
    \/ AwardCommit("p1")
    \/ YearJobStart
    \/ \E u \in Users : JobUser(u)
    \/ JobCommit
    \/ YearTick

SpecBadgeYear == BadgeYearInit /\ [][BadgeYearNext]_vars

\* C29: when the yearly job has run without error for year Y, every user
\* whose completions in Y sum to H >= 20 hours holds a Badge for Y with
\* badge_type = tier(H) and hours_completed = H, whatever on-demand awards
\* and completions came before the run.
C29_BadgeMatchesYearHours ==
    (jobPc = "idle" /\ job.status = "committed") =>
        \A u \in Users :
            HoursInYear(u, job.year) >= 20 =>
                \E b \in Rows(badges) :
                    /\ b.user = u /\ b.year = job.year
                    /\ b.type = determine_badge_type(HoursInYear(u, job.year))
                    /\ b.hours = HoursInYear(u, job.year)

---------------------------------------------------------------------------
(* Scheduler lifecycle: src/core/scheduler.py start_scheduler and            *)
(* stop_scheduler, called by the lifespan of src/core/app.py.  Both are      *)
(* plain functions without an await: each call is one step.                  *)

\* Lines 211-217: add_job(send_session_reminders, CronTrigger(hour=9, minute=0))
ReminderJob == [id |-> "session_reminders", func |-> "send_session_reminders",
                trigger |-> "daily"]

\* Lines 220-226: add_job(calculate_yearly_badges, CronTrigger(month=1, day=1, ...))
BadgeJob == [id |-> "yearly_badges", func |-> "calculate_yearly_badges",
             trigger |-> "1 January"]

\* add_job(..., id=j.id, replace_existing=True): a job of the same id gives way.
AddJob(jobs, j) ==
    Insert(SetToBag({x \in Rows(jobs) : x.id # j.id}), j)

\* The instances that are running, by their position in 'instances'.
Live == {i \in 1..Len(instances) : instances[i].running}

\* A running instance has a job of this id registered.
Registered(id) == \E i \in Live : \E j \in Rows(instances[i].jobs) : j.id = id

\* Mutant: start_scheduler without the test of lines 203-205.
start_scheduler_unguarded ==
    /\ AllQuiet
    /\ Len(instances) < MaxInstances
    /\ instances' = Append(instances,
                           [running |-> TRUE,
                            jobs |-> AddJob(AddJob(EmptyBag, ReminderJob), BadgeJob)])
    /\ scheduler' = Some(Len(instances) + 1)
    /\ UNCHANGED <<now, tierVars, catalogVars, tableVars, procVars, jobPc, job, jobRuns,
                   reminder, submitted>>

\* Lines 199-229: start_scheduler.
start_scheduler ==
    /\ AllQuiet
    /\ scheduler # None \/ Len(instances) < MaxInstances
    /\ IF scheduler # None
       THEN UNCHANGED schedVars
       ELSE /\ instances' = Append(instances,
                                   [running |-> TRUE,
                                    jobs |-> AddJob(AddJob(EmptyBag, ReminderJob), BadgeJob)])
            /\ scheduler' = Some(Len(instances) + 1)
    /\ UNCHANGED <<now, tierVars, catalogVars, tableVars, procVars, jobPc, job, jobRuns,
                   reminder, submitted>>

\* Lines 231-238: stop_scheduler.
stop_scheduler ==
    /\ AllQuiet
    /\ IF scheduler # None
       THEN /\ instances' = [instances EXCEPT ![scheduler[1]].running = FALSE]
            /\ scheduler' = None
       ELSE UNCHANGED schedVars
    /\ UNCHANGED <<now, tierVars, catalogVars, tableVars, procVars, jobPc, job, jobRuns,
                   reminder, submitted>>

---------------------------------------------------------------------------
(* Specification SpecScheduler: the scheduler is started and stopped while   *)
(* days pass; a running instance fires its jobs: the reminders once a day,   *)
(* the badges on the first tick of a year.                                   *)

\* u1 is enrolled in t1, which has a session on day 1 and one on day 2, and
\* has completed 20 hours in year 0.
SchedulerInit ==
    /\ now = 0
    /\ TierUnused
    /\ trainings = {"t1"}
    /\ sessions = {[id |-> "s1", training |-> "t1", date |-> 1],
                   [id |-> "s3", training |-> "t1", date |-> 2]}
    /\ modules = [m \in {} |-> NoRow]
    /\ lessons = [l \in {} |-> NoRow]
    /\ enrollments = [e \in EnrollmentIds |->
                         IF e = "e1" THEN NewEnrollment("u1", "t1", FALSE) ELSE NoRec]
    /\ progress = EmptyBag /\ attendance = EmptyBag
    /\ completions = SetToBag({SeedCompletion("e1", 1, 20)})
    /\ badges = EmptyBag /\ notifications = EmptyBag
    /\ ProcsIdle /\ JobIdle /\ NoSubmissions

FireReminders ==
    /\ AllQuiet
    /\ Registered("session_reminders")
    /\ reminder.runs <= now
    /\ ReminderStart

FireBadges ==
    /\ AllQuiet
    /\ Registered("yearly_badges")
    /\ now = YearStart(YearOf(now))
    /\ JobStart

SchedulerNext ==
    \/ start_scheduler
    \/ stop_scheduler
    \/ DailyTick
    \/ FireReminders
    \/ \E s \in sessions : ReminderSession(s)
    \/ \E e \in EnrollmentIds, ok \in BOOLEAN : ReminderNotify(e, ok)
    \/ ReminderCommit
    \/ FireBadges
    \/ \E u \in Users : JobUser(u)
    \/ JobCommit

SpecScheduler == SchedulerInit /\ [][SchedulerNext]_vars

\* C30: at most one scheduler instance is running; the global names it, and
\* it has exactly the two jobs session_reminders (daily) and yearly_badges
\* (1 January), once each; with the global None nothing runs.  No step
\* changes a running scheduler except the stop, which shuts down the named
\* instance and resets the global; with none running nothing changes except
\* by a start, which creates a fresh running instance with the two jobs.
C30_SchedulerLifecycle ==
    /\ [](/\ Cardinality(Live) <= 1
          /\ scheduler = None => Live = {}
          /\ scheduler # None =>
                 /\ Live = {scheduler[1]}
                 /\ instances[scheduler[1]].jobs = SetToBag({ReminderJob, BadgeJob}))
    /\ [][/\ (scheduler # None /\ scheduler' # None) => UNCHANGED schedVars
          /\ (scheduler # None /\ scheduler' = None) =>
                 instances' = [instances EXCEPT ![scheduler[1]].running = FALSE]
          /\ (scheduler = None /\ scheduler' = None) => UNCHANGED instances
          /\ (scheduler = None /\ scheduler' # None) =>
                 /\ scheduler' = Some(Len(instances) + 1)
                 /\ Len(instances') = Len(instances) + 1
                 /\ \A i \in 1..Len(instances) : instances'[i] = instances[i]
                 /\ instances'[Len(instances')] =
                        [running |-> TRUE, jobs |-> SetToBag({ReminderJob, BadgeJob})]]_vars

\* The scheduler was started, stopped and started again: the second instance
\* runs with its two jobs, the first is shut down; the reminders and the
\* badge job have been fired and have committed.
C30_Witness ==
    /\ scheduler = Some(2)
    /\ Len(instances) = 2
    /\ ~instances[1].running
    /\ instances[2].running
    /\ BagCardinality(instances[2].jobs) = 2
    /\ reminder.pc = "idle" /\ reminder.status = "committed"
    /\ jobPc = "idle" /\ job.status = "committed"
    /\ BadgeCount(badges, "u1", 0) = 1

=============================================================================
